---- MODULE Spec2Model ----
(***************************************************************************)
(* Model of the request-dispatch fabric of MC833-Projeto1: the bounded    *)
(* single-producer / multi-consumer work queue (worker/queue.c), the      *)
(* worker threads that pop sockets from it (worker/worker.c), the request *)
(* handler's session outcome (worker/request.c) and the accept loop that  *)
(* feeds the queue (main.c).                                              *)
(*                                                                         *)
(* Every atomic load, store and compare-exchange of the queue is one step, *)
(* so all interleavings of the producer and the consumers are explored.   *)
(* The build is x86 only (<immintrin.h>, _mm_pause, -march=native): loads *)
(* are not reordered with loads nor stores with stores, and the weak      *)
(* compare-exchange is LOCK CMPXCHG, which never fails spuriously.        *)
(***************************************************************************)
EXTENDS Integers, Sequences, FiniteSets, TLC

\* ------------------------------------------------------------- bounds ----
\* Slots of the ring (128 in worker/queue.h, reduced here).
WORK_QUEUE_CAPACITY == 2
\* Connections the accept loop accepts in one run; more than the capacity,
\* so that ring slots are reused.
MaxClients == 3
\* Operations a client sends in one session before the stream ends.
MaxOps == 1
\* Retries the admission path is allowed after a push on a full queue.
MaxEnqueueRetries == 1
\* Pushes one workers_add_work call is followed through; its loop has no
\* bound of its own.
MaxAttempts == MaxEnqueueRetries + 2
\* Bits of the queue's counters (64 in worker/queue.c).
CounterBits == 6

\* Bytes of a page of the builder's string buffer (4096 in movie/builder.c).
BUFFER_PAGE_SIZE == 4

\* Records the builder's list grows by (128 in movie/builder.c).
MOVIE_LIST_CAPACITY_STEP == 2

\* Pages of memory there are for the builder's string buffer.
MaxPages == 3

\* Calls made on one builder.
MaxBuilderCalls == 9

\* Genres given to one record of the builder.
MaxGenres == 2
\* Key/value pairs written inside one add_movie mapping.
MaxMoviePairs == 5
\* Key/value pairs written inside the mapping of an operation on a key.
MaxKeyPairs == 3
\* Calls of parser_next_op followed on one parser.
MaxCalls == 8
\* ParseDone results followed on one parser.
MaxDone == 2

\* The worker threads: two of them (WORKERS_CAPACITY is 128 in
\* worker/worker.h, cpu_count() in the older accept loop).
Workers == {1, 2}
Fds == 1 .. MaxClients
\* Owner of the mutex: a worker, the main thread or nobody.
NoOwner == 0
MainThread == Cardinality(Workers) + 1
WORKERS_CAPACITY == Cardinality(Workers)

\* db_result_t
DB_SUCCESS == "DB_SUCCESS"
DB_RUNTIME_ERROR == "DB_RUNTIME_ERROR"
DB_USER_ERROR == "DB_USER_ERROR"
DB_HARD_ERROR == "DB_HARD_ERROR"
DbResults == {DB_SUCCESS, DB_RUNTIME_ERROR, DB_USER_ERROR, DB_HARD_ERROR}

VARIABLES
    head,        \* queue->head: next ticket for consumers
    tail,        \* queue->tail: next ticket for the producer
    buf,         \* queue->buf: slot index -> work item (0: never written)
    mtx,         \* owner of item_added_mtx
    waiters,     \* workers blocked on item_added_cond
    wpc,         \* worker -> position in worker_thread
    w_head,      \* worker -> local `head` of workq_pop / is_empty
    w_target,    \* worker -> local `target` of workq_pop
    w_fd,        \* worker -> sock_fd being handled (0: none)
    w_ret,       \* worker -> what handle_request just returned
    w_cause,     \* worker -> why that session ended
    mpc,         \* position of the main thread
    m_head,      \* local `head` of workq_push
    m_tail,      \* local `tail` of workq_push
    m_fd,        \* client_fd being admitted (0: none)
    m_ok,        \* value returned by the last workq_push
    accepted,    \* connections accepted so far
    m_i,         \* loop index `i` of restart_dead_workers / workers_stop_partial
    m_dead,      \* dead_threads of restart_dead_workers
    m_tries,     \* pushes attempted by the current workers_add_work call
    s_parser,    \* struct operation_parser of the session under study
    s_input,     \* what the client of that session wrote
    s_returned,  \* operations parser_next_op returned, in call order
    s_pc,        \* where that session is
    s_hard_fail, \* handle_request's hard_fail
    s_sent,      \* what handle_request sent, one entry per loop turn
    s_db,        \* history: data-access calls made, one entry per call
    conn,        \* the db_connect call under study
    store,       \* the database file and the workers' connections to it
    ring,        \* a work queue whose counters wrap, with its live slots
    mbuilder,    \* the movie builder under study
    pushed,      \* history: items published, by ticket
    got,         \* history: successful pops, in claim order
    closed_main, \* descriptors closed by the accept loop
    closed_wrk   \* descriptor -> times handle_request closed it

vars == <<head, tail, buf, mtx, waiters, wpc, w_head, w_target, w_fd,
          w_ret, w_cause, mpc, m_head, m_tail, m_fd, m_ok,
          accepted, m_i, m_dead, m_tries, s_parser, s_input, s_returned,
          s_pc, s_hard_fail, s_sent, s_db, conn, store, ring, mbuilder,
          pushed, got,
          closed_main, closed_wrk>>

queue_vars == <<head, tail, buf>>
sync_vars == <<mtx, waiters>>
wlocal_vars == <<w_head, w_target>>
session_vars == <<w_fd, w_ret, w_cause>>
pool_vars == <<m_i, m_dead, m_tries>>
parse_vars == <<s_parser, s_input, s_returned, s_pc, s_hard_fail, s_sent,
               s_db>>
data_vars == <<conn, store, ring, mbuilder>>
main_vars == <<mpc, m_head, m_tail, m_fd, m_ok, accepted, pool_vars>>
close_vars == <<closed_main, closed_wrk>>

\* ------------------------------------------------------ pure helpers ----
\* idx: ticket -> ring index.
idx(ticket) == ticket % WORK_QUEUE_CAPACITY

\* The counters are uint_fast64_t; here they have CounterBits bits, and
\* unsigned int has half as many.
UINT_FAST64_MAX == 2 ^ CounterBits - 1
INT_FAST64_MAX == 2 ^ (CounterBits - 1) - 1
UINT_MAX == 2 ^ (CounterBits \div 2) - 1

\* workq_size: tail - head computed in the counters' unsigned type and
\* reinterpreted as a signed value of the same width, negative when head is
\* ahead of tail.
workq_size(h, t) ==
    LET diff == (t - h) % (UINT_FAST64_MAX + 1) IN
    IF diff <= INT_FAST64_MAX THEN diff
    ELSE -(UINT_FAST64_MAX + 1 - diff)

\* Mutant: the fullness test off by one, so a full ring accepts one more.
seems_full_off_by_one(h, t) == workq_size(h, t) > WORK_QUEUE_CAPACITY

\* The fullness test of workq_push.
seems_full(h, t) == workq_size(h, t) >= WORK_QUEUE_CAPACITY

\* What is_empty assumes of the head and the tail it loaded.
assume_size(h, t) == workq_size(h, t) <= WORK_QUEUE_CAPACITY

\* The emptiness test of workq_pop and is_empty.
seems_empty(h, t) == workq_size(h, t) <= 0

\* Mutant: every failed database call counts as a hard error.
handle_result_any_error(result) == result # DB_SUCCESS

\* handle_result: whether the result is a hard error.
handle_result(result) == result = DB_HARD_ERROR

\* ---------------------------------------------- the store: statements ----
\* The tables of the schema, with the counters AUTOINCREMENT keeps in
\* sqlite_sequence.
EmptyStore ==
    [movie |-> {}, genre |-> {}, movie_genre |-> {},
     sqlite_sequence |-> [movie |-> 0, genre |-> 0]]

\* Result codes of sqlite3_step.
SQLITE_DONE == "SQLITE_DONE"
SQLITE_BUSY == "SQLITE_BUSY"
SQLITE_IOERR == "SQLITE_IOERR"
SQLITE_ERROR == "SQLITE_ERROR"
SQLITE_CONSTRAINT_UNIQUE == "SQLITE_CONSTRAINT_UNIQUE"
SQLITE_CONSTRAINT_FOREIGNKEY == "SQLITE_CONSTRAINT_FOREIGNKEY"

\* What one statement did: its result code, the tables after it, whether
\* its conflict clause rolled the transaction back, the id it returned,
\* the rows it changed and the rows it selected.
Stepped(rc, db, rolled_back, id, changes, rows) ==
    [rc |-> rc, db |-> db, rolled_back |-> rolled_back, id |-> id,
     changes |-> changes, rows |-> rows]

Max(S) == CHOOSE x \in S : \A y \in S : y <= x

Min(S) == CHOOSE x \in S : \A y \in S : x <= y

\* Mutant: a plain INTEGER PRIMARY KEY, which takes the largest id in the
\* table plus one.
autoincrement_of_rows(db, table) ==
    Max({0} \cup {r.id : r \in db[table]}) + 1

\* id INTEGER PRIMARY KEY AUTOINCREMENT: one more than the largest id the
\* table ever held.
autoincrement(db, table) == db.sqlite_sequence[table] + 1

\* INSERT OR ROLLBACK INTO movie ... RETURNING id.  The columns are NOT NULL
\* and the values bound are never NULL, so no constraint can fail.
insert_movie(db, m) ==
    LET id == autoincrement(db, "movie")
        row == [id |-> id, title |-> m.title, director |-> m.director,
                release_year |-> m.release_year]
    IN  Stepped(SQLITE_DONE,
                [db EXCEPT !.movie = @ \cup {row},
                           !.sqlite_sequence.movie = Max({@, id})],
                FALSE, id, 1, <<>>)

\* INSERT OR IGNORE INTO genre(name): a name already there is left alone.
insert_genre(db, name) ==
    IF \E g \in db.genre : g.name = name
      THEN Stepped(SQLITE_DONE, db, FALSE, 0, 0, <<>>)
      ELSE LET id == autoincrement(db, "genre") IN
           Stepped(SQLITE_DONE,
                   [db EXCEPT !.genre = @ \cup {[id |-> id, name |-> name]},
                              !.sqlite_sequence.genre = Max({@, id})],
                   FALSE, id, 1, <<>>)

\* Mutant: movie_genre without its UNIQUE (movie_id, genre_id).
unique_violated_never(db, rows) == FALSE

\* UNIQUE (movie_id, genre_id).
unique_violated(db, rows) == rows \cap db.movie_genre # {}

\* Mutant: foreign keys not enforced.
foreign_key_violated_never(db, rows) == FALSE

\* FOREIGN KEY (movie_id) REFERENCES movie(id), enforced by the build
\* (SQLITE_DEFAULT_FOREIGN_KEYS = 1).  genre_id is selected from genre.
foreign_key_violated(db, rows) ==
    \E r \in rows : ~\E m \in db.movie : m.id = r.movie_id

\* INSERT OR ROLLBACK INTO movie_genre SELECT :movie, genre.id FROM genre
\* WHERE genre.name = :genre.  A UNIQUE conflict rolls the transaction
\* back; a foreign key violation is no conflict in that sense, it fails the
\* statement only.
insert_genre_link(db, movie, name) ==
    LET rows == {[movie_id |-> movie, genre_id |-> g.id] :
                    g \in {g \in db.genre : g.name = name}}
    IN  IF unique_violated(db, rows)
          THEN Stepped(SQLITE_CONSTRAINT_UNIQUE, db, TRUE, 0, 0, <<>>)
        ELSE IF foreign_key_violated(db, rows)
          THEN Stepped(SQLITE_CONSTRAINT_FOREIGNKEY, db, FALSE, 0, 0, <<>>)
          ELSE Stepped(SQLITE_DONE, [db EXCEPT !.movie_genre = @ \cup rows],
                       FALSE, 0, Cardinality(rows), <<>>)

\* DELETE FROM movie WHERE id = :movie; the links go with the movie
\* (ON DELETE CASCADE).
delete_movie(db, movie) ==
    LET gone == {m \in db.movie : m.id = movie} IN
    Stepped(SQLITE_DONE,
            [db EXCEPT !.movie = @ \ gone,
                       !.movie_genre = {l \in @ : l.movie_id # movie}],
            FALSE, 0, Cardinality(gone), <<>>)

\* Mutant: the collection of unused genres deletes nothing.
delete_unused_genres_none(db) == Stepped(SQLITE_DONE, db, FALSE, 0, 0, <<>>)

\* DELETE FROM genre WHERE id NOT IN (SELECT DISTINCT genre_id FROM
\* movie_genre).
delete_unused_genres(db) ==
    LET used == {l.genre_id : l \in db.movie_genre}
        gone == {g \in db.genre : g.id \notin used}
    IN  Stepped(SQLITE_DONE, [db EXCEPT !.genre = @ \ gone], FALSE, 0,
                Cardinality(gone), <<>>)

\* SELECT * FROM movie WHERE id = :movie.
select_movie(db, movie) ==
    Stepped(SQLITE_DONE, db, FALSE, 0, 0, {m \in db.movie : m.id = movie})

\* Mutant: the genres of every movie, the WHERE clause forgotten.
select_movie_genres_of_all(db, movie) ==
    Stepped(SQLITE_DONE, db, FALSE, 0, 0,
            {g.name : g \in {g \in db.genre :
                \E l \in db.movie_genre : l.genre_id = g.id}})

\* SELECT genre.name FROM genre INNER JOIN movie_genre ON genre.id =
\* genre_id WHERE movie_id = :movie.
select_movie_genres(db, movie) ==
    Stepped(SQLITE_DONE, db, FALSE, 0, 0,
            {g.name : g \in {g \in db.genre :
                \E l \in db.movie_genre :
                    l.genre_id = g.id /\ l.movie_id = movie}})

\* SELECT * FROM movie.
select_all_movies(db) == Stepped(SQLITE_DONE, db, FALSE, 0, 0, db.movie)

\* ---------------------------------------------- the store: operations ----
\* Most operations the connections start, all workers together.
MaxStoreOps == 3
\* Most statements the engine fails for a reason of its own (I/O).
MaxFaults == 1
\* Ids the clients ask for.
MovieIds == {1, 2}
\* Genres the clients name.
GenreNames == {"a", "b"}

NoMovie == [title |-> "", director |-> "", release_year |-> 0, genres |-> <<>>]

\* Movies the clients register; the last one names a genre twice.
Movies ==
    {[title |-> "T1", director |-> "D1", release_year |-> 1999,
      genres |-> <<"a">>],
     [title |-> "T2", director |-> "D2", release_year |-> 2001,
      genres |-> <<"a", "b">>],
     [title |-> "T1", director |-> "D1", release_year |-> 1999,
      genres |-> <<"b", "b">>]}

Operation(name, movie, id, genre) ==
    [name |-> name, movie |-> movie, id |-> id, genre |-> genre]

NoOperation == Operation("none", NoMovie, 0, "")

\* The calls a worker makes on its connection.
Operations ==
    {Operation("register_movie", m, 0, "") : m \in Movies}
        \cup {Operation("add_genre", NoMovie, id, g) :
                id \in MovieIds, g \in GenreNames}
        \cup {Operation("delete_movie", NoMovie, id, "") : id \in MovieIds}
        \cup {Operation("get_movie", NoMovie, id, "") : id \in MovieIds}

\* One statement of an operation; movie = 0 in a link stands for the id the
\* movie insert returned.
Stmt(stmt, movie, genre) == [stmt |-> stmt, movie |-> movie, genre |-> genre]

WriteStmts ==
    {"insert_movie", "insert_genre", "insert_genre_link", "delete_movie",
     "delete_unused_genres"}

\* The statements an operation runs after BEGIN when nothing fails.
Program(op) ==
    CASE op.name = "register_movie" ->
           [i \in 1 .. Len(op.movie.genres) |->
               Stmt("insert_genre", 0, op.movie.genres[i])]
             \o <<Stmt("insert_movie", 0, "")>>
             \o [i \in 1 .. Len(op.movie.genres) |->
                   Stmt("insert_genre_link", 0, op.movie.genres[i])]
             \o <<Stmt("commit", 0, "")>>
      [] op.name = "add_genre" ->
           <<Stmt("insert_genre", 0, op.genre),
             Stmt("insert_genre_link", op.id, op.genre),
             Stmt("commit", 0, "")>>
      [] op.name = "delete_movie" ->
           <<Stmt("delete_movie", op.id, ""),
             Stmt("delete_unused_genres", 0, ""),
             Stmt("commit", 0, "")>>
      [] op.name = "get_movie" ->
           <<Stmt("select_movie", op.id, ""),
             Stmt("select_movie_genres", op.id, ""),
             Stmt("commit", 0, "")>>
      [] OTHER -> <<>>

\* A connection between two operations; overlapped names the operations
\* that were running on the other connections when its own began, and began
\* is the length of the history at that time.
IdleConn ==
    [pc |-> "idle", op |-> NoOperation, prog |-> <<>>, tx |-> FALSE,
     writing |-> FALSE, viewed |-> FALSE, view |-> EmptyStore, rowid |-> 0,
     found |-> {}, rc |-> SQLITE_DONE,
     result |-> DB_SUCCESS, errmsg |-> "", log |-> <<>>,
     gc_failed |-> FALSE, overlapped |-> {},
     began |-> 0]

\* The database file after db_setup, no connection working on it; history
\* lists what the committed operations did: the ids they assigned, with the
\* movies registered, the ids they deleted and the ids they linked a genre
\* to.
StoreEntry ==
    [file |-> EmptyStore, writer |-> 0, conns |-> [w \in Workers |-> IdleConn],
     ops |-> 0, faults |-> 0, history |-> <<>>]

\* The message of a failed operation.
ErrMsg(op, rc) ==
    CASE rc = SQLITE_CONSTRAINT_FOREIGNKEY
           \/ (rc = "not found" /\ op.name = "get_movie") ->
           <<"no movie with id = ", op.id, " found in the database">>
      [] rc = "not found" /\ op.name = "delete_movie" ->
           <<"no movie with id = ", op.id, " to be deleted from the database">>
      [] OTHER -> <<rc>>

\* The result of an operation whose statement failed with rc.
Result(rc) ==
    IF rc \in {SQLITE_CONSTRAINT_UNIQUE, SQLITE_CONSTRAINT_FOREIGNKEY,
               "not found"}
      THEN DB_USER_ERROR
    ELSE IF rc \in {SQLITE_BUSY, SQLITE_IOERR} THEN DB_RUNTIME_ERROR
    ELSE DB_HARD_ERROR

\* The connection gives up its transaction: the changes it made are gone
\* and so is its lock.
Closed(c) ==
    [c EXCEPT !.tx = FALSE, !.writing = FALSE, !.viewed = FALSE,
              !.view = EmptyStore]

\* The operation returns.
Returned(c) == [c EXCEPT !.pc = "idle", !.prog = <<>>]

\* Mutant: a ROLLBACK that leaves the transaction open.
sql_rollback_open(c) ==
    Returned([c EXCEPT !.log = Append(@, "ROLLBACK")])

\* ROLLBACK TRANSACTION, the last statement of a failed operation.  With no
\* transaction open the statement fails, and a failed rollback is a hard
\* error.
sql_rollback(c) ==
    IF c.tx
      THEN Returned([Closed(c) EXCEPT !.log = Append(@, "ROLLBACK")])
      ELSE Returned([c EXCEPT !.log = Append(@, "ROLLBACK, no transaction"),
                              !.result = DB_HARD_ERROR,
                              !.rc = SQLITE_ERROR])

\* Mutant: the error path rolls back whether a transaction is open or not.
on_error_always_rollback(c) == [c EXCEPT !.prog = <<Stmt("rollback", 0, "")>>]

\* The error path of an operation: roll back the transaction if the engine
\* has not done so, and return.
on_error(c) ==
    IF c.tx THEN [c EXCEPT !.prog = <<Stmt("rollback", 0, "")>>]
            ELSE Returned(c)

\* A statement failed with rc; rolled_back tells that its conflict clause
\* rolled the transaction back.
Failed(c, rc, rolled_back) ==
    LET d == [c EXCEPT !.rc = rc, !.result = Result(rc),
                       !.errmsg = ErrMsg(c.op, rc)]
    IN  on_error(IF rolled_back
                   THEN [Closed(d) EXCEPT !.log = Append(@, "OR ROLLBACK")]
                   ELSE d)

\* Mutant: a COMMIT that writes nothing.
sql_commit_nothing(c, file) == file

\* COMMIT TRANSACTION: the changes of a writer become the file.
sql_commit(c, file) == IF c.writing THEN c.view ELSE file

\* The statement the connection runs on the tables it sees.
Execute(db, c, s) ==
    CASE s.stmt = "insert_genre" -> insert_genre(db, s.genre)
      [] s.stmt = "insert_movie" -> insert_movie(db, c.op.movie)
      [] s.stmt = "insert_genre_link" ->
           insert_genre_link(db, IF s.movie = 0 THEN c.rowid ELSE s.movie,
                             s.genre)
      [] s.stmt = "delete_movie" -> delete_movie(db, s.movie)
      [] s.stmt = "delete_unused_genres" -> delete_unused_genres(db)
      [] s.stmt = "select_movie" -> select_movie(db, s.movie)
      [] s.stmt = "select_movie_genres" -> select_movie_genres(db, s.movie)
      [] OTHER -> Stepped(SQLITE_ERROR, db, FALSE, 0, 0, {})

\* The movie get_movie builds from the row and the genre names selected.
Fetched(row, names) ==
    [id |-> row.id, title |-> row.title, director |-> row.director,
     release_year |-> row.release_year, genres |-> names]

\* The connection after a statement that went well.
Advanced(c, s, r) ==
    LET d == [c EXCEPT !.prog = Tail(@), !.view = r.db, !.viewed = TRUE]
    IN  CASE s.stmt = "insert_movie" -> [d EXCEPT !.rowid = r.id]
          [] s.stmt = "delete_movie" /\ r.changes = 0 ->
               Failed(d, "not found", FALSE)
          [] s.stmt = "select_movie" /\ r.rows = {} ->
               Failed(d, "not found", FALSE)
          [] s.stmt = "select_movie" -> [d EXCEPT !.found = r.rows]
          [] s.stmt = "select_movie_genres" ->
               [d EXCEPT !.found = {Fetched(row, r.rows) : row \in @}]
          [] OTHER -> d

\* What a committed operation adds to the history of the store.
Committed(c) ==
    CASE c.op.name = "register_movie" ->
           <<[ev |-> "assigned", id |-> c.rowid, movie |-> c.op.movie]>>
      [] c.op.name = "delete_movie" ->
           <<[ev |-> "deleted", id |-> c.op.id, movie |-> NoMovie]>>
      [] c.op.name = "add_genre" ->
           <<[ev |-> "linked", id |-> c.op.id, movie |-> NoMovie]>>
      [] OTHER -> <<>>

\* One statement of the operation running on connection w; fault tells that
\* the engine fails it for a reason of its own.
RunStmt(st, w, fault) ==
    LET c == st.conns[w]
        s == Head(c.prog)
        write == s.stmt \in WriteStmts
        locked == write /\ st.writer \notin {0, w}
        db == IF c.viewed THEN c.view ELSE st.file
        r == Execute(db, c, s)
        counted == [st EXCEPT !.faults = IF fault THEN @ + 1 ELSE @]
        held == [counted EXCEPT !.writer = IF write THEN w ELSE @]
        put(t, d) ==
            [t EXCEPT !.conns[w] = d,
                      !.writer = IF d.writing \/ @ # w THEN @ ELSE 0]
    IN  CASE s.stmt = "rollback" -> put(st, sql_rollback(c))
          [] s.stmt = "commit" /\ fault ->
               put(counted,
                   Failed([c EXCEPT !.log = Append(@, "COMMIT failed")],
                          SQLITE_IOERR, FALSE))
          [] s.stmt = "commit" ->
               put([st EXCEPT
                      !.file = sql_commit(c, @),
                      !.history = @ \o Committed(c)],
                   Returned([Closed(c) EXCEPT !.log = Append(@, "COMMIT")]))
          [] s.stmt = "delete_unused_genres" /\ fault ->
               put(counted, [c EXCEPT !.prog = Tail(@), !.gc_failed = TRUE])
          [] fault -> put(counted, Failed(c, SQLITE_IOERR, FALSE))
          [] locked -> put(st, Failed(c, SQLITE_BUSY, FALSE))
          [] r.rc # SQLITE_DONE -> put(st, Failed(c, r.rc, r.rolled_back))
          [] OTHER ->
               put(held, Advanced([c EXCEPT !.writing = @ \/ write], s, r))

\* ------------------------------------------------------------- Init ----
\* No queue was created yet.
RingEntry == [capacity |-> 0, head |-> 0, tail |-> 0, live |-> <<>>]

\* No builder was created yet.
BuilderEntry == [pc |-> "none", calls |-> 0]

\* db_connect was entered and has not run yet.
ConnectEntry ==
    [pc |-> "call", errmsg_given |-> FALSE, allocated |-> FALSE,
     db |-> "none", has_error |-> FALSE, stmts |-> <<>>, prepares |-> <<>>,
     errmsg |-> FALSE, ret |-> "none"]

InitServer(entry) ==
    /\ head = 0
    /\ tail = 0
    /\ buf = [i \in 0 .. WORK_QUEUE_CAPACITY - 1 |-> 0]
    /\ mtx = NoOwner
    /\ waiters = {}
    /\ wpc = [w \in Workers |-> "connect"]
    /\ w_head = [w \in Workers |-> 0]
    /\ w_target = [w \in Workers |-> 0]
    /\ w_fd = [w \in Workers |-> 0]
    /\ w_ret = [w \in Workers |-> "none"]
    /\ w_cause = [w \in Workers |-> "none"]
    /\ mpc = entry
    /\ m_head = 0
    /\ m_tail = 0
    /\ m_fd = 0
    /\ m_ok = TRUE
    /\ accepted = 0
    /\ m_i = 0
    /\ m_dead = 0
    /\ m_tries = 0
    /\ pushed = <<>>
    /\ got = <<>>
    /\ closed_main = {}
    /\ closed_wrk = [f \in 0 .. MaxClients |-> 0]
    /\ conn = ConnectEntry
    /\ store = StoreEntry
    /\ ring = RingEntry
    /\ mbuilder = BuilderEntry

\* The server with no parser under observation.
InitAt(entry) ==
    /\ InitServer(entry)
    /\ s_parser = <<>>
    /\ s_input = <<>>
    /\ s_returned = <<>>
    /\ s_pc = "none"
    /\ s_hard_fail = FALSE
    /\ s_sent = <<>>
    /\ s_db = <<>>

\* main: the workers were started and the accept loop is entered.
Init == InitAt("accept")

\* -------------------------------------------- worker: worker_thread ----
\* db_connect at thread start: the thread serves, or returns at once.
WorkerConnect(w) ==
    /\ wpc[w] = "connect"
    /\ \E ok \in BOOLEAN :
         wpc' = [wpc EXCEPT ![w] = IF ok THEN "pop_head" ELSE "exited"]
    /\ UNCHANGED <<queue_vars, sync_vars, wlocal_vars, session_vars, main_vars,
                   pushed, got, close_vars, parse_vars, data_vars>>

\* workq_pop: relaxed load of head.
PopLoadHead(w) ==
    /\ wpc[w] = "pop_head"
    /\ w_head' = [w_head EXCEPT ![w] = head]
    /\ wpc' = [wpc EXCEPT ![w] = "pop_tail"]
    /\ w_ret' = [w_ret EXCEPT ![w] = "none"]
    /\ w_cause' = [w_cause EXCEPT ![w] = "none"]
    /\ UNCHANGED <<queue_vars, sync_vars, w_target, w_fd, main_vars, pushed,
                   got, close_vars, parse_vars, data_vars>>

\* workq_pop: relaxed load of tail and the first emptiness test.
PopLoadTail(w) ==
    /\ wpc[w] = "pop_tail"
    /\ wpc' = [wpc EXCEPT ![w] =
                 IF seems_empty(w_head[w], tail) THEN "pop_tail2" ELSE "pop_read"]
    /\ UNCHANGED <<queue_vars, sync_vars, w_head, w_target, session_vars,
                   main_vars, pushed, got, close_vars, parse_vars, data_vars>>

\* workq_pop: acquire reload of tail; still empty means the pop returns
\* false and workq_pop_or_wait goes on to workq_wait_not_empty.
PopReloadTail(w) ==
    /\ wpc[w] = "pop_tail2"
    /\ IF seems_empty(w_head[w], tail)
         THEN /\ wpc' = [wpc EXCEPT ![w] = "wait_lock"]
              /\ w_head' = [w_head EXCEPT ![w] = 0]
         ELSE /\ wpc' = [wpc EXCEPT ![w] = "pop_read"]
                        /\ UNCHANGED w_head
    /\ UNCHANGED <<queue_vars, sync_vars, w_target, session_vars, main_vars,
                   pushed, got, close_vars, parse_vars, data_vars>>

\* workq_pop: snapshot of the slot at the local head.
PopReadSlot(w) ==
    /\ wpc[w] = "pop_read"
    /\ w_target' = [w_target EXCEPT ![w] = buf[idx(w_head[w])]]
    /\ wpc' = [wpc EXCEPT ![w] = "pop_cas"]
    /\ UNCHANGED <<queue_vars, sync_vars, w_head, session_vars,
                   main_vars, pushed, got, close_vars, parse_vars, data_vars>>

\* Mutant: a plain store instead of a compare-exchange.
cas_head_blind(expected) == TRUE

\* The compare-exchange on head: succeeds when head still holds `expected`.
cas_head_succeeds(expected) == head = expected

\* workq_pop: claim the ticket.  On success the snapshot is the popped item
\* and worker_thread passes it to handle_request; on failure retry.
PopCas(w) ==
    /\ wpc[w] = "pop_cas"
    /\ IF cas_head_succeeds(w_head[w])
         THEN /\ head' = w_head[w] + 1
              /\ got' = Append(got, [worker |-> w, item |-> w_target[w]])
              /\ w_fd' = [w_fd EXCEPT ![w] = w_target[w]]
              /\ wpc' = [wpc EXCEPT ![w] = "handle"]
         ELSE /\ wpc' = [wpc EXCEPT ![w] = "pop_head"]
              /\ UNCHANGED <<head, got, w_fd>>
    /\ w_head' = [w_head EXCEPT ![w] = 0]
    /\ w_target' = [w_target EXCEPT ![w] = 0]
    /\ UNCHANGED <<tail, buf, sync_vars, w_ret, w_cause, main_vars, pushed,
                   close_vars, parse_vars, data_vars>>

\* workq_wait_not_empty: lock the mutex.
WaitLock(w) ==
    /\ wpc[w] = "wait_lock"
    /\ mtx = NoOwner
    /\ mtx' = w
    /\ wpc' = [wpc EXCEPT ![w] = "wait_head"]
    /\ UNCHANGED <<queue_vars, waiters, wlocal_vars, session_vars, main_vars,
                   pushed, got, close_vars, parse_vars, data_vars>>

\* is_empty: acquire load of head.
WaitLoadHead(w) ==
    /\ wpc[w] = "wait_head"
    /\ w_head' = [w_head EXCEPT ![w] = head]
    /\ wpc' = [wpc EXCEPT ![w] = "wait_tail"]
    /\ UNCHANGED <<queue_vars, sync_vars, w_target, session_vars,
                   main_vars, pushed, got, close_vars, parse_vars, data_vars>>

\* is_empty: acquire load of tail; empty goes to pthread_cond_wait, which
\* releases the mutex and blocks in one step; not empty leaves the loop.
WaitLoadTail(w) ==
    /\ wpc[w] = "wait_tail"
    /\ IF seems_empty(w_head[w], tail)
         THEN /\ wpc' = [wpc EXCEPT ![w] = "waiting"]
              /\ waiters' = waiters \cup {w}
              /\ mtx' = NoOwner
         ELSE /\ wpc' = [wpc EXCEPT ![w] = "wait_unlock"]
              /\ UNCHANGED <<mtx, waiters>>
    /\ w_head' = [w_head EXCEPT ![w] = 0]
    /\ UNCHANGED <<queue_vars, w_target, session_vars, main_vars,
                   pushed, got, close_vars, parse_vars, data_vars>>

\* is_empty: the tail loaded is more than the capacity ahead of the head
\* loaded before it, so the assumption fails.  A build that checks it stops
\* the process here, and with it every thread and what it had returned; a
\* build that does not goes on with the comparison, as in WaitLoadTail.
WaitAssumeFails(w) ==
    /\ wpc[w] = "wait_tail"
    /\ ~assume_size(w_head[w], tail)
    /\ wpc' = [v \in Workers |-> "aborted"]
    /\ mpc' = "aborted"
    /\ w_ret' = [v \in Workers |-> "none"]
    /\ w_cause' = [v \in Workers |-> "none"]
    /\ UNCHANGED <<queue_vars, sync_vars, wlocal_vars, w_fd, m_head, m_tail,
                   m_fd, m_ok, accepted, pool_vars, pushed, got, close_vars,
                   parse_vars, data_vars>>

\* pthread_cond_wait may return without a signal.
SpuriousWakeup(w) ==
    /\ wpc[w] = "waiting"
    /\ w \in waiters
    /\ waiters' = waiters \ {w}
    /\ UNCHANGED <<queue_vars, mtx, wpc, wlocal_vars, session_vars, main_vars,
                   pushed, got, close_vars, parse_vars, data_vars>>

\* pthread_cond_wait returns: the woken thread owns the mutex again and
\* the loop tests is_empty once more.
WaitWake(w) ==
    /\ wpc[w] = "waiting"
    /\ w \notin waiters
    /\ mtx = NoOwner
    /\ mtx' = w
    /\ wpc' = [wpc EXCEPT ![w] = "wait_head"]
    /\ UNCHANGED <<queue_vars, waiters, wlocal_vars, session_vars, main_vars,
                   pushed, got, close_vars, parse_vars, data_vars>>

\* workq_wait_not_empty: unlock and return true; workq_pop_or_wait pops again.
WaitUnlock(w) ==
    /\ wpc[w] = "wait_unlock"
    /\ mtx = w
    /\ mtx' = NoOwner
    /\ wpc' = [wpc EXCEPT ![w] = "pop_head"]
    /\ UNCHANGED <<queue_vars, waiters, wlocal_vars, session_vars, main_vars,
                   pushed, got, close_vars, parse_vars, data_vars>>

\* ------------------------------------------- worker: handle_request ----
\* What parser_next_op hands to the dispatch loop, with the result the
\* dispatch produces for it and whether the parser is finished afterwards:
\* a parse error that leaves the stream usable, a parse error returned
\* when the stream ended inside an operation, or an operation that calls
\* the database.
ClientOps ==
    {[ty |-> "PARSE_ERROR", result |-> DB_SUCCESS, done |-> d] : d \in BOOLEAN}
      \cup {[ty |-> "DB_OP", result |-> r, done |-> FALSE] : r \in DbResults}

\* The end of the stream: parser_next_op returns PARSE_DONE.
ParseDone == [ty |-> "PARSE_DONE", result |-> DB_SUCCESS, done |-> TRUE]

\* A client's stream: at most MaxOps operations, then the end of the stream.
Streams == UNION {[1 .. n -> ClientOps] : n \in 0 .. MaxOps}

\* The operation the loop reads at position i of the stream.
next_op(ops, i) == IF i <= Len(ops) THEN ops[i] ELSE ParseDone

\* The loop `while (!parser_finished(parser) && !hard_fail)` from position
\* i on: each turn reads an operation and sets hard_fail from its result.
\* Gives the position after the last operation read and the final hard_fail.
RECURSIVE session_loop(_, _, _, _)
session_loop(ops, i, finished, hard_fail) ==
    IF finished \/ hard_fail
      THEN [read |-> i - 1, hard_fail |-> hard_fail]
      ELSE session_loop(ops, i + 1, next_op(ops, i).done,
                        handle_result(next_op(ops, i).result))

\* What handle_request returns: false when the parser could not be created,
\* else !hard_fail.
request_ok(created, ops) ==
    IF created THEN ~session_loop(ops, 1, FALSE, FALSE).hard_fail ELSE FALSE

\* Why the session ended, read off the operations the loop dispatched:
\* the parser was not created, a database call returned DB_HARD_ERROR, or
\* the stream ended.
session_cause(created, ops) ==
    IF ~created THEN "nocreate"
    ELSE IF \E i \in 1 .. session_loop(ops, 1, FALSE, FALSE).read :
              next_op(ops, i).result = DB_HARD_ERROR
           THEN "hard"
           ELSE "done"

\* handle_request as called by worker_thread: the whole session.  Every
\* exit path closes the socket; worker_thread breaks out of its loop when
\* false is returned and pops again otherwise.  A session whose read of
\* the socket failed has no exit path: parse_fail leaves the parser
\* unfinished and the next parser_next_op does not return.
HandleRequest(w) ==
    /\ wpc[w] = "handle"
    /\ \/ /\ \E created \in BOOLEAN : \E ops \in Streams :
               /\ w_ret' = [w_ret EXCEPT ![w] =
                              IF request_ok(created, ops) THEN "ok" ELSE "fail"]
               /\ w_cause' = [w_cause EXCEPT ![w] = session_cause(created, ops)]
               /\ wpc' = [wpc EXCEPT ![w] =
                            IF request_ok(created, ops) THEN "pop_head"
                                                        ELSE "disconnect"]
          /\ closed_wrk' = [closed_wrk EXCEPT ![w_fd[w]] = @ + 1]
          /\ w_fd' = [w_fd EXCEPT ![w] = 0]
       \/ /\ wpc' = [wpc EXCEPT ![w] = "no_return"]
          /\ UNCHANGED <<w_ret, w_cause, w_fd, closed_wrk>>
    /\ UNCHANGED <<queue_vars, sync_vars, wlocal_vars, main_vars, pushed, got,
                   closed_main, parse_vars, data_vars>>

\* worker_thread after its loop: db_disconnect and return.
WorkerDisconnect(w) ==
    /\ wpc[w] = "disconnect"
    /\ wpc' = [wpc EXCEPT ![w] = "exited"]
    /\ w_ret' = [w_ret EXCEPT ![w] = "none"]
    /\ w_cause' = [w_cause EXCEPT ![w] = "none"]
    /\ UNCHANGED <<queue_vars, sync_vars, wlocal_vars, w_fd, main_vars,
                   pushed, got, close_vars, parse_vars, data_vars>>

WorkerStep(w) ==
    \/ WorkerConnect(w)
    \/ PopLoadHead(w)
    \/ PopLoadTail(w)
    \/ PopReloadTail(w)
    \/ PopReadSlot(w)
    \/ PopCas(w)
    \/ WaitLock(w)
    \/ WaitLoadHead(w)
    \/ WaitLoadTail(w)
    \/ WaitAssumeFails(w)
    \/ WaitWake(w)
    \/ WaitUnlock(w)
    \/ HandleRequest(w)
    \/ WorkerDisconnect(w)

\* ------------------------------------------- main thread: workq_push ----
\* workq_push: relaxed load of head.
PushLoadHead ==
    /\ mpc = "push_head"
    /\ m_head' = head
    /\ mpc' = "push_tail"
    /\ UNCHANGED <<queue_vars, sync_vars, wpc, wlocal_vars, session_vars,
                   m_tail, m_fd, m_ok, accepted, pushed, got, close_vars, pool_vars,
                   parse_vars, data_vars>>

\* workq_push: relaxed load of tail and the first fullness test.
PushLoadTail ==
    /\ mpc = "push_tail"
    /\ m_tail' = tail
    /\ mpc' = IF seems_full(m_head, tail) THEN "push_head2" ELSE "push_write"
    /\ UNCHANGED <<queue_vars, sync_vars, wpc, wlocal_vars, session_vars,
                   m_head, m_fd, m_ok, accepted, pushed, got, close_vars, pool_vars,
                   parse_vars, data_vars>>

\* workq_push: acquire reload of head; still full returns false.
PushReloadHead ==
    /\ mpc = "push_head2"
    /\ m_head' = head
    /\ IF seems_full(head, m_tail)
         THEN /\ m_ok' = FALSE
              /\ mpc' = "after_push"
         ELSE /\ mpc' = "push_write"
              /\ UNCHANGED m_ok
    /\ UNCHANGED <<queue_vars, sync_vars, wpc, wlocal_vars, session_vars,
                   m_tail, m_fd, accepted, pushed, got, close_vars, pool_vars,
                   parse_vars, data_vars>>

\* workq_push: write the item into the slot of the local tail.
PushWrite ==
    /\ mpc = "push_write"
    /\ buf' = [buf EXCEPT ![idx(m_tail)] = m_fd]
    /\ mpc' = "push_cas"
    /\ UNCHANGED <<head, tail, sync_vars, wpc, wlocal_vars, session_vars,
                   m_head, m_tail, m_fd, m_ok, accepted, pushed, got, close_vars, pool_vars,
                   parse_vars, data_vars>>

\* workq_push: publish tail + 1 with a compare-exchange (release).  With a
\* single producer tail still holds the local value.
PushCas ==
    /\ mpc = "push_cas"
    /\ IF tail = m_tail
         THEN /\ tail' = m_tail + 1
              /\ pushed' = Append(pushed, m_fd)
              /\ m_ok' = TRUE
         ELSE /\ m_ok' = FALSE
              /\ UNCHANGED <<tail, pushed>>
    /\ mpc' = "sig_lock"
    /\ UNCHANGED <<head, buf, sync_vars, wpc, wlocal_vars, session_vars,
                   m_head, m_tail, m_fd, accepted, got, close_vars, pool_vars,
                   parse_vars, data_vars>>

\* workq_signal_item_added: lock the mutex (skipped when the exchange failed).
SignalLock ==
    /\ mpc = "sig_lock"
    /\ IF m_ok
         THEN /\ mtx = NoOwner
              /\ mtx' = MainThread
              /\ mpc' = "sig_signal"
         ELSE /\ mpc' = "after_push"
              /\ UNCHANGED mtx
    /\ UNCHANGED <<queue_vars, waiters, wpc, wlocal_vars, session_vars,
                   m_head, m_tail, m_fd, m_ok, accepted, pushed, got, close_vars, pool_vars,
                   parse_vars, data_vars>>

\* Mutant: the signal is dropped.
cond_signal_dropped(blocked) == {blocked}

\* pthread_cond_signal on item_added_cond: the sets of threads that may
\* remain blocked; one waiter is woken, if there is one.
cond_signal(blocked) ==
    IF blocked = {} THEN {blocked} ELSE {blocked \ {w} : w \in blocked}

\* workq_signal_item_added: signal the condition, holding the mutex.
SignalCond ==
    /\ mpc = "sig_signal"
    /\ waiters' \in cond_signal(waiters)
    /\ mpc' = "sig_unlock"
    /\ UNCHANGED <<queue_vars, mtx, wpc, wlocal_vars, session_vars,
                   m_head, m_tail, m_fd, m_ok, accepted, pushed, got, close_vars, pool_vars,
                   parse_vars, data_vars>>

\* workq_signal_item_added: unlock; workq_push returns true.
SignalUnlock ==
    /\ mpc = "sig_unlock"
    /\ mtx = MainThread
    /\ mtx' = NoOwner
    /\ m_ok' = TRUE
    /\ mpc' = "after_push"
    /\ UNCHANGED <<queue_vars, waiters, wpc, wlocal_vars, session_vars,
                   m_head, m_tail, m_fd, accepted, pushed, got, close_vars, pool_vars,
                   parse_vars, data_vars>>

PushStep ==
    \/ PushLoadHead
    \/ PushLoadTail
    \/ PushReloadHead
    \/ PushWrite
    \/ PushCas
    \/ SignalLock
    \/ SignalCond
    \/ SignalUnlock

\* ------------------------------------------ main thread: accept loop ----
\* main: accept returns a new descriptor, which is passed to workq_push.
Accept ==
    /\ mpc = "accept"
    /\ accepted < MaxClients
    /\ accepted' = accepted + 1
    /\ m_fd' = accepted + 1
    /\ mpc' = "push_head"
    /\ UNCHANGED <<queue_vars, sync_vars, wpc, wlocal_vars, session_vars,
                   m_head, m_tail, m_ok, pushed, got, close_vars, pool_vars,
                   parse_vars, data_vars>>

\* main: a rejected push closes the descriptor and leaves the loop to join
\* the workers; an accepted one goes back to accept.
AfterPush ==
    /\ mpc = "after_push"
    /\ IF m_ok
         THEN /\ mpc' = "accept"
              /\ UNCHANGED closed_main
         ELSE /\ closed_main' = closed_main \cup {m_fd}
              /\ mpc' = "join"
    /\ m_fd' = 0
    /\ m_head' = 0
    /\ m_tail' = 0
    /\ UNCHANGED <<queue_vars, sync_vars, wpc, wlocal_vars, session_vars,
                   m_ok, accepted, pushed, got, closed_wrk, pool_vars,
                   parse_vars, data_vars>>

MainStep == PushStep \/ Accept \/ AfterPush

Next ==
    \/ MainStep
    \/ \E w \in Workers : WorkerStep(w)
    \/ \E w \in Workers : SpuriousWakeup(w)

Spec == Init /\ [][Next]_vars

\* The threads are scheduled fairly: a thread that can take a step, or can
\* take one again and again (a contended mutex), eventually does.  Clients
\* need not arrive and spurious wakeups need not happen.
Fairness ==
    /\ \A w \in Workers : SF_vars(WorkerStep(w))
    /\ SF_vars(PushStep)
    /\ WF_vars(AfterPush)

FairSpec == Spec /\ Fairness

\* ------------------------------------------- failing pthread calls ----
\* workq_signal_item_added: workq_mutex_lock fails, so it returns false and
\* so does workq_push, after tail was published.
SignalLockFail ==
    /\ mpc = "sig_lock"
    /\ m_ok
    /\ m_ok' = FALSE
    /\ mpc' = "after_push"
    /\ UNCHANGED <<queue_vars, sync_vars, wpc, wlocal_vars, session_vars,
                   m_head, m_tail, m_fd, accepted, pushed, got, close_vars, pool_vars,
                   parse_vars, data_vars>>

\* workq_wait_not_empty: workq_mutex_lock fails and false is returned;
\* workq_pop_or_wait gives -1 and worker_thread leaves its loop.
WaitLockFail(w) ==
    /\ wpc[w] = "wait_lock"
    /\ wpc' = [wpc EXCEPT ![w] = "disconnect"]
    /\ UNCHANGED <<queue_vars, sync_vars, wlocal_vars, session_vars, main_vars,
                   pushed, got, close_vars, parse_vars, data_vars>>

NextFault ==
    \/ Next
    \/ SignalLockFail
    \/ \E w \in Workers : WaitLockFail(w)

\* The accept loop and the workers when pthread_mutex_lock may fail.
SpecFault == Init /\ [][NextFault]_vars

\* ------------------------------------------------- the worker pool ----
\* workers_start succeeded: every worker thread was created, and the caller
\* is about to accept connections and hand them to workers_add_work.
InitPool == InitAt("pool_accept")

\* A thread that has not returned from worker_thread.
Alive(w) == wpc[w] \notin {"exited", "joined"}

\* pthread_kill(id, 0): 0 for a running thread.  For a thread that returned
\* and was not joined the answer depends on the C library (ESRCH, or 0
\* while the thread ID is still valid); an ID that was joined is no longer
\* valid and either answer may come back.
pthread_kill_probe(state) ==
    IF state \in {"exited", "joined"} THEN {"0", "ESRCH"} ELSE {"0"}

\* The caller accepts a connection and calls workers_add_work.
PoolAccept ==
    /\ mpc = "pool_accept"
    /\ accepted < MaxClients
    /\ accepted' = accepted + 1
    /\ m_fd' = accepted + 1
    /\ mpc' = "probe"
    /\ m_i' = 1
    /\ m_dead' = 0
    /\ m_tries' = 0
    /\ UNCHANGED <<queue_vars, sync_vars, wpc, wlocal_vars, session_vars,
                   m_head, m_tail, m_ok, pushed, got, close_vars, parse_vars, data_vars>>

\* restart_dead_workers, one turn of its loop: the probe, and on ESRCH
\* restart_worker (a signal to a thread that is gone, a join that returns at
\* once, and start_worker, which may fail).
ProbeWorker ==
    /\ mpc = "probe"
    /\ m_i <= WORKERS_CAPACITY
    /\ \E rv \in pthread_kill_probe(wpc[m_i]), ok \in BOOLEAN :
         IF rv = "ESRCH"
           THEN /\ wpc' = [wpc EXCEPT ![m_i] = IF ok THEN "connect" ELSE "joined"]
                /\ m_dead' = IF ok THEN m_dead ELSE m_dead + 1
           ELSE /\ ok
                /\ UNCHANGED <<wpc, m_dead>>
    /\ m_i' = m_i + 1
    /\ UNCHANGED <<queue_vars, sync_vars, wlocal_vars, session_vars, mpc,
                   m_head, m_tail, m_fd, m_ok, accepted, m_tries, pushed, got,
                   close_vars, parse_vars, data_vars>>

\* restart_dead_workers returns dead_threads < WORKERS_CAPACITY, and
\* workers_add_work returns false or calls workq_push.
ProbeDone ==
    /\ mpc = "probe"
    /\ m_i > WORKERS_CAPACITY
    /\ m_i' = 0
    /\ IF m_dead < WORKERS_CAPACITY
         THEN /\ mpc' = "push_head"
              /\ m_tries' = m_tries + 1
              /\ m_ok' = TRUE
         ELSE /\ mpc' = "add_work_ret"
              /\ m_ok' = FALSE
              /\ UNCHANGED m_tries
    /\ UNCHANGED <<queue_vars, sync_vars, wpc, wlocal_vars, session_vars,
                   m_head, m_tail, m_fd, accepted, m_dead, pushed, got,
                   close_vars, parse_vars, data_vars>>

\* workers_add_work after workq_push: true is returned, or _mm_pause and
\* the loop starts over.
AddWorkAfterPush ==
    /\ mpc = "after_push"
    /\ IF m_ok
         THEN /\ mpc' = "add_work_ret"
              /\ UNCHANGED <<m_i, m_dead>>
         ELSE /\ m_tries < MaxAttempts
              /\ mpc' = "probe"
              /\ m_i' = 1
              /\ m_dead' = 0
    /\ UNCHANGED <<queue_vars, sync_vars, wpc, wlocal_vars, session_vars,
                   m_head, m_tail, m_fd, m_ok, accepted, m_tries, pushed, got,
                   close_vars, parse_vars, data_vars>>

\* The caller of workers_add_work: a rejected connection is closed, and the
\* next one is accepted.
AddWorkReturn ==
    /\ mpc = "add_work_ret"
    /\ closed_main' = IF m_ok THEN closed_main ELSE closed_main \cup {m_fd}
    /\ mpc' = "pool_accept"
    /\ m_fd' = 0
    /\ m_head' = 0
    /\ m_tail' = 0
    /\ m_i' = 0
    /\ m_dead' = 0
    /\ m_tries' = 0
    /\ UNCHANGED <<queue_vars, sync_vars, wpc, wlocal_vars, session_vars,
                   m_ok, accepted, pushed, got, closed_wrk, parse_vars, data_vars>>

\* The caller stops accepting and calls workers_stop.
RequestStop ==
    /\ mpc = "pool_accept"
    /\ mpc' = "stop_kill"
    /\ m_i' = 1
    /\ UNCHANGED <<queue_vars, sync_vars, wpc, wlocal_vars, session_vars,
                   m_head, m_tail, m_fd, m_ok, accepted, m_dead, m_tries,
                   pushed, got, close_vars, parse_vars, data_vars>>

\* SIGINT delivered to a thread while a handler is installed: the handler
\* runs, and a thread blocked in pthread_cond_wait resumes the wait or
\* returns from it as from a spurious wakeup.  Nothing worker_thread or
\* workq_wait_not_empty reads is changed by the signal.
sigint_delivered(blocked, w) == {blocked, blocked \ {w}}

\* workers_stop_partial, first loop: pthread_kill(id, SIGINT).
StopKill ==
    /\ mpc = "stop_kill"
    /\ waiters' \in sigint_delivered(waiters, m_i)
    /\ IF m_i < WORKERS_CAPACITY
         THEN /\ m_i' = m_i + 1
              /\ UNCHANGED mpc
         ELSE /\ m_i' = 1
              /\ mpc' = "stop_join"
    /\ UNCHANGED <<queue_vars, mtx, wpc, wlocal_vars, session_vars,
                   m_head, m_tail, m_fd, m_ok, accepted, m_dead, m_tries,
                   pushed, got, close_vars, parse_vars, data_vars>>

\* workers_stop_partial, second loop: pthread_join returns once the thread
\* has returned from worker_thread; after the last one the queue is
\* destroyed.
StopJoin ==
    /\ mpc = "stop_join"
    /\ ~Alive(m_i)
    /\ wpc' = [wpc EXCEPT ![m_i] = "joined"]
    /\ IF m_i < WORKERS_CAPACITY
         THEN /\ m_i' = m_i + 1
              /\ UNCHANGED mpc
         ELSE /\ m_i' = 0
              /\ mpc' = "stopped"
    /\ UNCHANGED <<queue_vars, sync_vars, wlocal_vars, session_vars,
                   m_head, m_tail, m_fd, m_ok, accepted, m_dead, m_tries,
                   pushed, got, close_vars, parse_vars, data_vars>>

PoolStep ==
    \/ ProbeWorker
    \/ ProbeDone
    \/ AddWorkAfterPush
    \/ AddWorkReturn
    \/ StopKill
    \/ StopJoin

NextPool ==
    \/ PoolAccept
    \/ RequestStop
    \/ PoolStep
    \/ PushStep
    \/ \E w \in Workers : WorkerStep(w)
    \/ \E w \in Workers : SpuriousWakeup(w)

\* Every thread that can run does; connections need not arrive, the stop
\* need not be requested and spurious wakeups need not happen.
PoolFairness ==
    /\ \A w \in Workers : SF_vars(WorkerStep(w))
    /\ SF_vars(PushStep)
    /\ WF_vars(PoolStep)

PoolSpec == InitPool /\ [][NextPool]_vars /\ PoolFairness

\* =========================================== the operation parser ====
\* libyaml's events.  The parser reads the client's bytes through
\* yaml_parser_parse; here the byte stream is given as the events libyaml
\* produces for it.  YAML_ERROR stands for the call at which
\* yaml_parser_parse returns 0 (a failed recv in sock_read_handler, or
\* malformed input).
YAML_NO_EVENT == "YAML_NO_EVENT"
YAML_STREAM_START_EVENT == "YAML_STREAM_START_EVENT"
YAML_STREAM_END_EVENT == "YAML_STREAM_END_EVENT"
YAML_DOCUMENT_START_EVENT == "YAML_DOCUMENT_START_EVENT"
YAML_DOCUMENT_END_EVENT == "YAML_DOCUMENT_END_EVENT"
YAML_ALIAS_EVENT == "YAML_ALIAS_EVENT"
YAML_SCALAR_EVENT == "YAML_SCALAR_EVENT"
YAML_SEQUENCE_START_EVENT == "YAML_SEQUENCE_START_EVENT"
YAML_SEQUENCE_END_EVENT == "YAML_SEQUENCE_END_EVENT"
YAML_MAPPING_START_EVENT == "YAML_MAPPING_START_EVENT"
YAML_MAPPING_END_EVENT == "YAML_MAPPING_END_EVENT"
YAML_ERROR == "YAML_ERROR"

Event(type) == [type |-> type, value |-> ""]
Scalar(value) == [type |-> YAML_SCALAR_EVENT, value |-> value]

\* enum operation_ty, and the outcome of a call that does not return.
PARSE_ERROR == "PARSE_ERROR"
PARSE_DONE == "PARSE_DONE"
ADD_MOVIE == "ADD_MOVIE"
ADD_GENRE == "ADD_GENRE"
REMOVE_MOVIE == "REMOVE_MOVIE"
LIST_SUMMARIES == "LIST_SUMMARIES"
LIST_MOVIES == "LIST_MOVIES"
GET_MOVIE == "GET_MOVIE"
SEARCH_BY_GENRE == "SEARCH_BY_GENRE"
NO_RETURN == "NO_RETURN"

\* enum current_key.
NONE == "NONE"
ID_KEY == "ID_KEY"
TITLE_KEY == "TITLE_KEY"
GENRE_KEY == "GENRE_KEY"
DIRECTOR_KEY == "DIRECTOR_KEY"
YEAR_KEY == "YEAR_KEY"
OTHER_KEY == "OTHER_KEY"

\* A position in the input (yaml_mark_t): the index of the event; NoMark
\* for a message that carries no position.
NoMark == 0

\* ----------------------------------------------------- movie builder ----
\* The builder of a parser, as the parser sees it: the fields of the
\* current record and its has-flags.  `assumed` is true for as long as
\* every call made on the builder met the assumptions written at the top
\* of the function called.
NewBuilder == [assumed |-> TRUE]

\* movie_builder_reset: nothing is set.
movie_builder_reset(builder) ==
    [has_id |-> FALSE, movie_id |-> 0,
     has_title |-> FALSE, title |-> "",
     has_director |-> FALSE, director |-> "",
     has_release_year |-> FALSE, release_year |-> 0,
     has_genres |-> FALSE, genres |-> <<>>,
     assumed |-> builder.assumed]

movie_builder_set_id(builder, movie_id) ==
    [builder EXCEPT !.movie_id = movie_id, !.has_id = TRUE,
                    !.assumed = @ /\ ~builder.has_id]

movie_builder_set_title(builder, title) ==
    [builder EXCEPT !.title = title, !.has_title = TRUE,
                    !.assumed = @ /\ ~builder.has_title]

\* movie_builder_set_director that clobbers the genres stored before it.
movie_builder_set_director_clobbering(builder, director) ==
    [builder EXCEPT !.director = director, !.has_director = TRUE,
                    !.genres = <<>>, !.assumed = @ /\ ~builder.has_director]

movie_builder_set_director(builder, director) ==
    [builder EXCEPT !.director = director, !.has_director = TRUE,
                    !.assumed = @ /\ ~builder.has_director]

movie_builder_set_release_year(builder, release_year) ==
    [builder EXCEPT !.release_year = release_year, !.has_release_year = TRUE,
                    !.assumed = @ /\ ~builder.has_release_year]

movie_builder_start_genres(builder) ==
    [builder EXCEPT !.genres = <<>>, !.has_genres = TRUE,
                    !.assumed = @ /\ ~builder.has_genres]

movie_builder_add_genre(builder, genre) ==
    [builder EXCEPT !.genres = Append(@, genre),
                    !.assumed = @ /\ builder.has_genres]

\* movie_builder_take_current_movie, movie_builder_take_current_summary:
\* what they assume of the builder they read.
movie_builder_take_current_movie(builder) ==
    [builder EXCEPT !.assumed =
        /\ @
        /\ builder.has_id
        /\ builder.has_title
        /\ builder.has_director
        /\ builder.has_release_year
        /\ builder.has_genres]

movie_builder_take_current_summary(builder) ==
    [builder EXCEPT !.assumed = @ /\ builder.has_id /\ builder.has_title]

\* ------------------------------------------------------------ parser ----
\* parser_create: the parser before its first call, bound to an input.
parser_create(input) ==
    [yaml |-> [input |-> input, pos |-> 1, error |-> FALSE],
     done |-> FALSE,
     in_mapping |-> FALSE,
     builder |-> movie_builder_reset(NewBuilder)]

parser_finished(parser) == parser.done

\* yaml_parser_parse: the next event, or failure.  After a failure, and
\* after the end of the input, libyaml produces no more events: every call
\* succeeds with YAML_NO_EVENT.
yaml_parser_parse(parser) ==
    LET yaml == parser.yaml IN
    IF yaml.error \/ yaml.pos > Len(yaml.input)
      THEN [rv |-> 1, event |-> Event(YAML_NO_EVENT), position |-> yaml.pos,
            parser |-> parser]
      ELSE IF yaml.input[yaml.pos].type = YAML_ERROR
        THEN [rv |-> 0, event |-> Event(YAML_NO_EVENT), position |-> yaml.pos,
              parser |-> [parser EXCEPT !.yaml.error = TRUE,
                                        !.yaml.pos = yaml.pos + 1]]
        ELSE [rv |-> 1, event |-> yaml.input[yaml.pos], position |-> yaml.pos,
              parser |-> [parser EXCEPT !.yaml.pos = yaml.pos + 1]]

\* What a parsing function hands back: the parser as it leaves it, and the
\* operation returned.
Ret(parser, op) == [parser |-> parser, op |-> op]

\* A loop turn that reads YAML_NO_EVENT leaves the parser and the locals as
\* they were, so every later turn reads it again: the call does not return.
Diverges(parser) == Ret(parser, [ty |-> NO_RETURN])

\* parse_done without the latch: the operation is returned and `done` is
\* left as it was.
parse_done_unlatched(parser) == Ret(parser, [ty |-> PARSE_DONE])

\* parse_done: the input ended.
parse_done(parser) == Ret([parser EXCEPT !.done = TRUE], [ty |-> PARSE_DONE])

\* parse_fail: the error libyaml reported, with its position.
parse_fail(parser) ==
    [ty |-> PARSE_ERROR, message |-> "yaml problem", at |-> parser.yaml.pos - 1]

\* parse_invalid: one of the parser's own errors, with the event's position.
parse_invalid(position, message) ==
    [ty |-> PARSE_ERROR, message |-> message, at |-> position]

\* parse_consume: skip events up to the end of the open mapping or
\* sequence.
RECURSIVE parse_consume(_, _, _, _)
parse_consume(parser, mapping_stack, sequence_stack, result) ==
    IF parser_finished(parser) THEN Ret(parser, result) ELSE
    LET y == yaml_parser_parse(parser)
        type == y.event.type
    IN
    IF y.rv = 0 THEN Ret(y.parser, parse_fail(y.parser))
    ELSE IF type = YAML_MAPPING_START_EVENT
      THEN parse_consume(y.parser, mapping_stack + 1, sequence_stack, result)
    ELSE IF type = YAML_MAPPING_END_EVENT
      THEN IF mapping_stack = 0
             THEN Ret(y.parser, parse_invalid(y.position, "unexpected end of mapping"))
             ELSE IF mapping_stack - 1 = 0 /\ sequence_stack = 0
               THEN Ret(y.parser, result)
               ELSE parse_consume(y.parser, mapping_stack - 1, sequence_stack, result)
    ELSE IF type = YAML_SEQUENCE_START_EVENT
      THEN parse_consume(y.parser, mapping_stack, sequence_stack + 1, result)
    ELSE IF type = YAML_SEQUENCE_END_EVENT
      THEN IF sequence_stack = 0
             THEN Ret(y.parser, parse_invalid(y.position, "unexpected end of sequence"))
             ELSE IF mapping_stack = 0 /\ sequence_stack - 1 = 0
               THEN Ret(y.parser, result)
               ELSE parse_consume(y.parser, mapping_stack, sequence_stack - 1, result)
    ELSE IF type = YAML_STREAM_END_EVENT
      THEN parse_done(y.parser)
    ELSE IF type \in {YAML_STREAM_START_EVENT, YAML_DOCUMENT_START_EVENT,
                      YAML_DOCUMENT_END_EVENT}
      THEN Ret(y.parser, parse_invalid(y.position, "unexpected end of document"))
    ELSE IF type = YAML_NO_EVENT
      THEN Diverges(parser)
    ELSE parse_consume(y.parser, mapping_stack, sequence_stack, result)

\* parse_ty: the operation a key names.
parse_ty(key) ==
    IF key \in {"add_movie", "1"} THEN ADD_MOVIE
    ELSE IF key \in {"add_genre", "2"} THEN ADD_GENRE
    ELSE IF key \in {"remove_movie", "3"} THEN REMOVE_MOVIE
    ELSE IF key \in {"list_summaries", "4"} THEN LIST_SUMMARIES
    ELSE IF key \in {"list_movies", "5"} THEN LIST_MOVIES
    ELSE IF key \in {"get_movie", "6"} THEN GET_MOVIE
    ELSE IF key \in {"search_by_genre", "7"} THEN SEARCH_BY_GENRE
    ELSE PARSE_ERROR

\* The decimal numerals among the scalars of the inputs, with their values.
Decimal ==
    ("1" :> 1) @@ ("2" :> 2) @@ ("5" :> 5) @@ ("7" :> 7) @@
    ("1999" :> 1999) @@ ("2001" :> 2001)

\* parse_i64: strtoll in base 10 over the whole string.
parse_i64(str) ==
    IF str \in DOMAIN Decimal
      THEN [ok |-> TRUE, out |-> Decimal[str]]
      ELSE [ok |-> FALSE, out |-> 0]

\* parse_key: the field a key names.
parse_key(key) ==
    IF key = "id" THEN ID_KEY
    ELSE IF key = "title" THEN TITLE_KEY
    ELSE IF key \in {"genre", "genres"} THEN GENRE_KEY
    ELSE IF key = "director" THEN DIRECTOR_KEY
    ELSE IF key \in {"year", "release_year"} THEN YEAR_KEY
    ELSE OTHER_KEY

\* The loop of parse_genre_list.
RECURSIVE parse_genre_list_loop(_, _, _, _)
parse_genre_list_loop(parser, ignore, in_list, last_error) ==
    IF parser_finished(parser)
      THEN IF last_error.ty = PARSE_ERROR
             THEN Ret(parser, last_error)
             ELSE Ret(parser, parse_invalid(NoMark, "document ended unexpectedly"))
    ELSE
    LET y == yaml_parser_parse(parser)
        type == y.event.type
        consumed(is_sequence, error) ==
            parse_consume(y.parser, IF is_sequence THEN 0 ELSE 1,
                          IF is_sequence THEN 1 ELSE 0, error)
        after(c) ==
            IF c.op.ty = NO_RETURN THEN c
            ELSE parse_genre_list_loop(c.parser, ignore, in_list, c.op)
    IN
    IF y.rv = 0 THEN Ret(y.parser, parse_fail(y.parser))
    ELSE IF type = YAML_SCALAR_EVENT
      THEN LET added == IF ignore THEN y.parser
                        ELSE [y.parser EXCEPT !.builder =
                                movie_builder_add_genre(@, y.event.value)]
           IN IF ~in_list THEN Ret(added, last_error)
              ELSE parse_genre_list_loop(added, ignore, in_list, last_error)
    ELSE IF type = YAML_SEQUENCE_START_EVENT
      THEN IF in_list
             THEN after(consumed(TRUE, parse_invalid(y.position,
                                   "internal sequence in genre list invalid")))
             ELSE parse_genre_list_loop(y.parser, ignore, TRUE, last_error)
    ELSE IF type = YAML_SEQUENCE_END_EVENT
      THEN Ret(y.parser, last_error)
    ELSE IF type = YAML_MAPPING_START_EVENT
      THEN after(consumed(FALSE, parse_invalid(y.position,
                            "mapping unsupported in genre list")))
    ELSE IF type = YAML_NO_EVENT
      THEN Diverges(parser)
    ELSE IF type = YAML_ALIAS_EVENT
      THEN parse_genre_list_loop(y.parser, ignore, in_list, last_error)
    ELSE LET ended == IF type = YAML_STREAM_END_EVENT
                        THEN parse_done(y.parser).parser
                        ELSE y.parser
         IN IF last_error.ty = PARSE_ERROR
              THEN Ret(ended, last_error)
              ELSE Ret(ended, parse_invalid(y.position, "document ended unexpectedly"))

\* parse_genre_list that reads every genre list into the builder.
parse_genre_list_appending(parser) ==
    parse_genre_list_loop([parser EXCEPT !.builder.has_genres = TRUE],
                          FALSE, FALSE, [ty |-> PARSE_DONE])

\* parse_genre_list: the genres of a movie, a sequence or one scalar; they
\* are dropped when the builder already has genres.  Gives PARSE_DONE when
\* nothing went wrong.
parse_genre_list(parser) ==
    LET ignore == parser.builder.has_genres
        started == IF ignore THEN parser
                   ELSE [parser EXCEPT !.builder = movie_builder_start_genres(@)]
    IN parse_genre_list_loop(started, ignore, FALSE, [ty |-> PARSE_DONE])

\* is_movie_done that forgets the genre list.
is_movie_done_without_genres(builder) ==
    /\ builder.has_id
    /\ builder.has_title
    /\ builder.has_director
    /\ builder.has_release_year

\* is_movie_done: every field of the movie was set.
is_movie_done(builder) ==
    /\ builder.has_id
    /\ builder.has_title
    /\ builder.has_director
    /\ builder.has_release_year
    /\ builder.has_genres

\* parse_movie_done: the operation with the movie taken from the builder.
parse_movie_done(builder, ty) ==
    [ty |-> ty,
     movie |-> [id |-> builder.movie_id, title |-> builder.title,
                director |-> builder.director,
                release_year |-> builder.release_year,
                genres |-> builder.genres]]

\* parse_movie_year: the release year, when the scalar is an integer.
parse_movie_year(parser, value, position, last_error) ==
    IF parse_i64(value).ok
      THEN Ret([parser EXCEPT !.builder =
                  movie_builder_set_release_year(@, parse_i64(value).out)],
               last_error)
      ELSE Ret(parser, parse_invalid(position, "release year is not a valid integer"))

\* How parse_movie ends once it stops reading: the movie if it is complete,
\* else the last error, else the given one.
movie_or_error(parser, ty, last_error, otherwise) ==
    IF is_movie_done(parser.builder)
      THEN Ret([parser EXCEPT !.builder = movie_builder_take_current_movie(@)],
               parse_movie_done(parser.builder, ty))
      ELSE IF last_error.ty = PARSE_ERROR
        THEN Ret(parser, last_error)
        ELSE Ret(parser, otherwise)

\* The loop of parse_movie.
RECURSIVE parse_movie_loop(_, _, _, _, _)
parse_movie_loop(parser, ty, in_mapping, key, last_error) ==
    IF parser_finished(parser)
      THEN movie_or_error(parser, ty, last_error,
                          parse_invalid(NoMark, "document ended unexpectedly"))
    ELSE
    LET y == yaml_parser_parse(parser)
        type == y.event.type
        value == y.event.value
        builder == y.parser.builder
        consumed(is_sequence, error) ==
            parse_consume(y.parser, IF is_sequence THEN 0 ELSE 1,
                          IF is_sequence THEN 1 ELSE 0, error)
        after(c) ==
            IF c.op.ty = NO_RETURN THEN c
            ELSE parse_movie_loop(c.parser, ty, in_mapping, key, c.op)
        \* the scalar is the value of the title (also reached by falling
        \* through from a scalar outside of the mapping)
        title(error) ==
            IF ~builder.has_title
              THEN parse_movie_loop(
                     [y.parser EXCEPT !.builder = movie_builder_set_title(@, value)],
                     ty, in_mapping, NONE, error)
              ELSE parse_movie_loop(y.parser, ty, in_mapping, NONE, error)
    IN
    IF y.rv = 0
      THEN IF is_movie_done(builder)
             THEN Ret([y.parser EXCEPT !.builder =
                         movie_builder_take_current_movie(@)],
                      parse_movie_done(builder, ty))
             ELSE Ret(y.parser, parse_fail(y.parser))
    ELSE IF type = YAML_SCALAR_EVENT
      THEN IF key = NONE
             THEN IF in_mapping
                    THEN IF parse_key(value) = GENRE_KEY
                           THEN LET g == parse_genre_list(y.parser) IN
                                IF g.op.ty = NO_RETURN THEN g
                                ELSE parse_movie_loop(
                                       g.parser, ty, in_mapping, NONE,
                                       IF g.op.ty = PARSE_ERROR THEN g.op
                                       ELSE last_error)
                           ELSE parse_movie_loop(y.parser, ty, in_mapping,
                                                 parse_key(value), last_error)
                    ELSE title(parse_invalid(y.position,
                                 "invalid movie input, not inside a mapping"))
           ELSE IF key = TITLE_KEY
             THEN title(last_error)
           ELSE IF key = DIRECTOR_KEY
             THEN IF ~builder.has_director
                    THEN parse_movie_loop(
                           [y.parser EXCEPT !.builder =
                              movie_builder_set_director(@, value)],
                           ty, in_mapping, NONE, last_error)
                    ELSE parse_movie_loop(y.parser, ty, in_mapping, NONE, last_error)
           ELSE IF key = YEAR_KEY
             THEN IF ~builder.has_release_year
                    THEN LET r == parse_movie_year(y.parser, value, y.position,
                                                   last_error)
                         IN parse_movie_loop(r.parser, ty, in_mapping, NONE, r.op)
                    ELSE parse_movie_loop(y.parser, ty, in_mapping, NONE, last_error)
           ELSE IF key = GENRE_KEY
             THEN parse_movie_loop(y.parser, ty, in_mapping, NONE,
                                   parse_invalid(y.position, "unexpected genre key"))
           ELSE parse_movie_loop(y.parser, ty, in_mapping, NONE, last_error)
    ELSE IF type = YAML_MAPPING_START_EVENT
      THEN IF in_mapping
             THEN after(consumed(FALSE, parse_invalid(y.position,
                                   "internal mapping invalid")))
             ELSE parse_movie_loop(y.parser, ty, TRUE, key, last_error)
    ELSE IF type = YAML_MAPPING_END_EVENT
      THEN movie_or_error(
             IF in_mapping THEN y.parser
             ELSE [y.parser EXCEPT !.in_mapping = FALSE],
             ty, last_error, parse_invalid(y.position, "operation incomplete"))
    ELSE IF type = YAML_SEQUENCE_START_EVENT
      THEN after(consumed(TRUE, parse_invalid(y.position,
                            "sequence unsupported in this operation")))
    ELSE IF type = YAML_NO_EVENT
      THEN Diverges(parser)
    ELSE IF type = YAML_ALIAS_EVENT
      THEN parse_movie_loop(y.parser, ty, in_mapping, key, last_error)
    ELSE movie_or_error(
           IF type = YAML_STREAM_END_EVENT THEN parse_done(y.parser).parser
           ELSE y.parser,
           ty, last_error, parse_invalid(y.position, "document ended unexpectedly"))

\* parse_movie: the mapping of an add_movie operation.
parse_movie(parser, ty) ==
    parse_movie_loop(
      [parser EXCEPT !.builder = movie_builder_set_id(movie_builder_reset(@), 0)],
      ty, FALSE, NONE, [ty |-> PARSE_DONE])

\* is_movie_key_done: the id and the genre (kept as the title) were set.
is_movie_key_done(builder) == builder.has_id /\ builder.has_title

\* parse_movie_key_done: the operation with the key taken from the builder.
parse_movie_key_done(builder, ty) ==
    [ty |-> ty, key |-> [movie_id |-> builder.movie_id, genre |-> builder.title]]

\* parse_movie_key_id: the movie id, when the scalar is an integer.
parse_movie_key_id(parser, value, position, last_error) ==
    IF parse_i64(value).ok
      THEN Ret([parser EXCEPT !.builder =
                  movie_builder_set_id(@, parse_i64(value).out)],
               last_error)
      ELSE Ret(parser, parse_invalid(position, "movie id is not a valid integer"))

\* parse_movie_key_genre: the genre, kept in the builder's title.
parse_movie_key_genre(parser, value, position, last_error) ==
    Ret([parser EXCEPT !.builder = movie_builder_set_title(@, value)], last_error)

\* How parse_movie_key ends when it stops at an event.
key_or_error(parser, ty, last_error, otherwise) ==
    IF is_movie_key_done(parser.builder)
      THEN Ret([parser EXCEPT !.builder = movie_builder_take_current_summary(@)],
               parse_movie_key_done(parser.builder, ty))
      ELSE IF last_error.ty = PARSE_ERROR
        THEN Ret(parser, last_error)
        ELSE Ret(parser, otherwise)

\* The loop of parse_movie_key.
RECURSIVE parse_movie_key_loop(_, _, _, _, _)
parse_movie_key_loop(parser, ty, in_mapping, key, last_error) ==
    IF parser_finished(parser)
      THEN movie_or_error(parser, ty, last_error,
                          parse_invalid(NoMark, "document ended unexpectedly"))
    ELSE
    LET y == yaml_parser_parse(parser)
        type == y.event.type
        value == y.event.value
        builder == y.parser.builder
        consumed(is_sequence, error) ==
            parse_consume(y.parser, IF is_sequence THEN 0 ELSE 1,
                          IF is_sequence THEN 1 ELSE 0, error)
        after(c) ==
            IF c.op.ty = NO_RETURN THEN c
            ELSE parse_movie_key_loop(c.parser, ty, in_mapping, key, c.op)
        next(r, k) == parse_movie_key_loop(r.parser, ty, in_mapping, k, r.op)
    IN
    IF y.rv = 0
      THEN IF is_movie_key_done(builder)
             THEN Ret([y.parser EXCEPT !.builder =
                         movie_builder_take_current_summary(@)],
                      parse_movie_key_done(builder, ty))
             ELSE Ret(y.parser, parse_fail(y.parser))
    ELSE IF type = YAML_SCALAR_EVENT
      THEN IF key = NONE
             THEN IF in_mapping
                    THEN parse_movie_key_loop(y.parser, ty, in_mapping,
                                              parse_key(value), last_error)
                  ELSE IF ~builder.has_id /\ builder.has_title
                    THEN next(parse_movie_key_id(y.parser, value, y.position,
                                                 last_error), NONE)
                  ELSE IF builder.has_id /\ ~builder.has_title
                    THEN next(parse_movie_key_genre(y.parser, value, y.position,
                                                    last_error), NONE)
                  ELSE parse_movie_key_loop(
                         y.parser, ty, in_mapping, NONE,
                         parse_invalid(y.position, "invalid input for operation"))
           ELSE IF key = ID_KEY /\ ~builder.has_id
             THEN next(parse_movie_key_id(y.parser, value, y.position,
                                          last_error), NONE)
           ELSE IF key = GENRE_KEY /\ ~builder.has_title
             THEN next(parse_movie_key_genre(y.parser, value, y.position,
                                             last_error), NONE)
           ELSE parse_movie_key_loop(y.parser, ty, in_mapping, NONE, last_error)
    ELSE IF type = YAML_MAPPING_START_EVENT
      THEN IF in_mapping
             THEN after(consumed(FALSE, parse_invalid(y.position,
                                   "internal mapping invalid")))
             ELSE parse_movie_key_loop(y.parser, ty, TRUE, key, last_error)
    ELSE IF type = YAML_MAPPING_END_EVENT
      THEN key_or_error(
             IF in_mapping THEN y.parser
             ELSE [y.parser EXCEPT !.in_mapping = FALSE],
             ty, last_error, parse_invalid(y.position, "operation incomplete"))
    ELSE IF type = YAML_SEQUENCE_START_EVENT
      THEN after(consumed(TRUE, parse_invalid(y.position,
                            "sequence unsupported in this operation")))
    ELSE IF type = YAML_NO_EVENT
      THEN Diverges(parser)
    ELSE IF type = YAML_ALIAS_EVENT
      THEN parse_movie_key_loop(y.parser, ty, in_mapping, key, last_error)
    ELSE key_or_error(
           IF type = YAML_STREAM_END_EVENT THEN parse_done(y.parser).parser
           ELSE y.parser,
           ty, last_error, parse_invalid(y.position, "document ended unexpectedly"))

\* parse_movie_key that keeps what the builder held.
parse_movie_key_without_reset(parser, ty, needs_id, needs_genre) ==
    LET with_id == IF needs_id THEN parser.builder
                   ELSE movie_builder_set_id(parser.builder, 0)
        with_genre == IF needs_genre THEN with_id
                      ELSE movie_builder_set_title(with_id, "")
    IN parse_movie_key_loop([parser EXCEPT !.builder = with_genre],
                            ty, FALSE, NONE, [ty |-> PARSE_DONE])

\* parse_movie_key: the id and/or genre of an operation, as one scalar or
\* as a mapping.  A field that is not needed is preset.
parse_movie_key(parser, ty, needs_id, needs_genre) ==
    LET reset == movie_builder_reset(parser.builder)
        with_id == IF needs_id THEN reset ELSE movie_builder_set_id(reset, 0)
        with_genre == IF needs_genre THEN with_id
                      ELSE movie_builder_set_title(with_id, "")
    IN parse_movie_key_loop([parser EXCEPT !.builder = with_genre],
                            ty, FALSE, NONE, [ty |-> PARSE_DONE])

\* parser_next_op: read events up to the next operation.
RECURSIVE parser_next_op(_)
parser_next_op(parser) ==
    IF parser_finished(parser) THEN parse_done(parser) ELSE
    LET y == yaml_parser_parse(parser)
        type == y.event.type
        ty == parse_ty(y.event.value)
    IN
    IF y.rv = 0 THEN Ret(y.parser, parse_fail(y.parser))
    ELSE IF type = YAML_SCALAR_EVENT
      THEN IF y.parser.in_mapping
             THEN IF ty = ADD_MOVIE THEN parse_movie(y.parser, ty)
                  ELSE IF ty = ADD_GENRE
                    THEN parse_movie_key(y.parser, ty, TRUE, TRUE)
                  ELSE IF ty \in {GET_MOVIE, REMOVE_MOVIE}
                    THEN parse_movie_key(y.parser, ty, TRUE, FALSE)
                  ELSE IF ty = SEARCH_BY_GENRE
                    THEN parse_movie_key(y.parser, ty, FALSE, TRUE)
                  ELSE IF ty \in {LIST_SUMMARIES, LIST_MOVIES}
                    THEN parse_movie_key(y.parser, ty, FALSE, FALSE)
                  ELSE Ret(y.parser, parse_invalid(y.position,
                                       "unrecognized operation key"))
             ELSE IF ty \in {LIST_SUMMARIES, LIST_MOVIES}
                    THEN Ret(y.parser, [ty |-> ty])
                  ELSE IF ty = PARSE_ERROR
                    THEN Ret(y.parser, parse_invalid(y.position,
                                         "unrecognized operation key"))
                  ELSE Ret(y.parser, parse_invalid(y.position,
                                       "operation requires a dictionary"))
    ELSE IF type = YAML_MAPPING_START_EVENT
      THEN IF y.parser.in_mapping
             THEN Ret(y.parser, parse_invalid(y.position,
                        "another operation start without finishing the first one"))
             ELSE parser_next_op([y.parser EXCEPT !.in_mapping = TRUE])
    ELSE IF type = YAML_MAPPING_END_EVENT
      THEN IF ~y.parser.in_mapping
             THEN Ret(y.parser, parse_invalid(y.position,
                                  "finishing an unstarted operation"))
             ELSE parser_next_op([y.parser EXCEPT !.in_mapping = FALSE])
    ELSE IF type = YAML_NO_EVENT
      THEN Diverges(parser)
    ELSE IF type = YAML_STREAM_END_EVENT
      THEN parse_done(y.parser)
    ELSE parser_next_op(y.parser)

\* ------------------------------------------- the bytes on the socket ----
\* What the client wrote, as the events libyaml makes of it: a stream of
\* documents, each a block of `key: value` operation entries or one bare
\* scalar.
Pair(key, value) == [key |-> key, value |-> value]

ScalarNode(v) == <<Scalar(v)>>

SequenceNode(items) ==
    <<Event(YAML_SEQUENCE_START_EVENT)>>
        \o [i \in 1 .. Len(items) |-> Scalar(items[i])]
        \o <<Event(YAML_SEQUENCE_END_EVENT)>>

RECURSIVE FlattenPairs(_)
FlattenPairs(pairs) ==
    IF pairs = <<>> THEN <<>>
    ELSE <<Scalar(Head(pairs).key)>> \o Head(pairs).value
             \o FlattenPairs(Tail(pairs))

MappingNode(pairs) ==
    <<Event(YAML_MAPPING_START_EVENT)>> \o FlattenPairs(pairs)
        \o <<Event(YAML_MAPPING_END_EVENT)>>

RECURSIVE Documents(_)
Documents(docs) ==
    IF docs = <<>> THEN <<>>
    ELSE <<Event(YAML_DOCUMENT_START_EVENT)>> \o Head(docs)
             \o <<Event(YAML_DOCUMENT_END_EVENT)>> \o Documents(Tail(docs))

Stream(docs) ==
    <<Event(YAML_STREAM_START_EVENT)>> \o Documents(docs)
        \o <<Event(YAML_STREAM_END_EVENT)>>

\* One client input: the operation entries written (`pairs` holds the
\* fields of the operation for the one-operation inputs, the operation
\* entries themselves for the two-operation ones), the documents they
\* make, and `cut`: 0 when the client closed its side after the stream,
\* k > 0 when the read that should bring event k failed or timed out.
Input(kind, key, pairs, docs, cut) ==
    [kind |-> kind, key |-> key, pairs |-> pairs, docs |-> docs, cut |-> cut]

\* sock_read_handler: recv returning 0 is the end of the stream, a failed
\* recv (timeout included) makes yaml_parser_parse fail at that point.
Events(input) ==
    IF input.cut = 0 THEN Stream(input.docs)
    ELSE SubSeq(Stream(input.docs), 1, input.cut - 1) \o <<Event(YAML_ERROR)>>

SeqsUpTo(S, n) == UNION {[1 .. k -> S] : k \in 0 .. n}

OneOperation(key, value) == <<MappingNode(<<Pair(key, value)>>)>>

\* add_movie with any fields, in any order, repeated or missing.
MovieFields ==
    { Pair("title", ScalarNode("T1")),
      Pair("director", ScalarNode("D1")),
      Pair("year", ScalarNode("1999")), Pair("release_year", ScalarNode("x")),
      Pair("genres", SequenceNode(<<"a">>)),
      Pair("genre", SequenceNode(<<"b", "c">>)) }

MovieInputs ==
    { Input("movie", "add_movie", pairs,
            OneOperation("add_movie", MappingNode(pairs)), 0) :
        pairs \in SeqsUpTo(MovieFields, MaxMoviePairs) }

\* The operations on a movie key, in mapping form.
KeyOps == {"add_genre", "remove_movie", "get_movie", "search_by_genre",
           "list_movies", "list_summaries"}

KeyFields ==
    { Pair("id", ScalarNode("1")), Pair("id", ScalarNode("7")),
      Pair("id", ScalarNode("x")),
      Pair("genre", ScalarNode("g")), Pair("genres", ScalarNode("h")),
      Pair("name", ScalarNode("g")) }

KeyInputs ==
    { Input("key", key, pairs, OneOperation(key, MappingNode(pairs)), 0) :
        key \in KeyOps, pairs \in SeqsUpTo(KeyFields, MaxKeyPairs) }

\* The compact forms: `key: scalar`, and a bare scalar document.
ScalarInputs ==
    { Input("scalar", key, <<>>, OneOperation(key, ScalarNode(v)), 0) :
        key \in KeyOps \cup {"add_movie", "bogus"}, v \in {"5", "g"} }
    \cup
    { Input("bare", key, <<>>, <<ScalarNode(key)>>, 0) :
        key \in KeyOps \cup {"add_movie", "bogus", "4", "5"} }

\* Complete operations.
ValidOps ==
    { Pair("get_movie", MappingNode(<<Pair("id", ScalarNode("7"))>>)),
      Pair("add_genre", MappingNode(<<Pair("id", ScalarNode("1")),
                                      Pair("genre", ScalarNode("g"))>>)),
      Pair("list_summaries", MappingNode(<<>>)),
      Pair("add_movie", MappingNode(<<Pair("title", ScalarNode("T1")),
                                      Pair("director", ScalarNode("D1")),
                                      Pair("year", ScalarNode("1999")),
                                      Pair("genres", SequenceNode(<<"a">>))>>)) }

\* Operations that are not: an unknown key, a value of the wrong shape, a
\* field missing.
InvalidOps ==
    { Pair("bogus", ScalarNode("x")),
      Pair("bogus", ScalarNode("list_movies")),
      Pair("bogus", MappingNode(<<Pair("a", ScalarNode("list_movies"))>>)),
      Pair("bogus", SequenceNode(<<"x">>)),
      Pair("add_movie", MappingNode(<<Pair("title", ScalarNode("T1"))>>)),
      Pair("add_movie", SequenceNode(<<"a", "b">>)),
      Pair("get_movie", SequenceNode(<<"5">>)),
      Pair("get_movie", ScalarNode("x")),
      Pair("add_genre", MappingNode(<<Pair("id", ScalarNode("1"))>>)),
      Pair("add_genre", MappingNode(<<Pair("id", ScalarNode("1")),
               Pair("genre", MappingNode(<<Pair("a", ScalarNode("b"))>>))>>)) }

\* Two operations, as two entries of one document or as two documents.
StreamInputs ==
    { Input("stream", "one document", <<a, b>>,
            <<MappingNode(<<a, b>>)>>, 0) :
        a \in InvalidOps \cup ValidOps, b \in ValidOps }
    \cup
    { Input("stream", "two documents", <<a, b>>,
            <<MappingNode(<<a>>), MappingNode(<<b>>)>>, 0) :
        a \in InvalidOps \cup ValidOps, b \in ValidOps }

\* A stream whose read fails before event `cut` arrives.
CutBases ==
    { <<MappingNode(<<a>>), MappingNode(<<b>>)>> : a \in ValidOps, b \in ValidOps }
    \cup {<<ScalarNode("list_movies")>>, <<>>}

CutInputs ==
    UNION { { Input("cut", "read failure", <<>>, docs, k) :
                k \in 1 .. Len(Stream(docs)) } : docs \in CutBases }

\* A complete operation with one more field, whose value is a sequence or
\* a mapping where a scalar is expected, written at any place among the
\* others.
WrongShapes ==
    { SequenceNode(<<"x">>), MappingNode(<<Pair("a", ScalarNode("b"))>>) }

CompleteFields(key) ==
    IF key = "add_movie"
      THEN <<Pair("title", ScalarNode("T1")), Pair("director", ScalarNode("D1")),
             Pair("year", ScalarNode("1999")),
             Pair("genres", SequenceNode(<<"a">>))>>
    ELSE IF key = "add_genre"
      THEN <<Pair("id", ScalarNode("1")), Pair("genre", ScalarNode("g"))>>
      ELSE <<Pair("id", ScalarNode("7"))>>

InsertAt(seq, i, x) == SubSeq(seq, 1, i - 1) \o <<x>> \o SubSeq(seq, i, Len(seq))

MismatchInputs ==
    UNION { { Input("mismatch", key, InsertAt(CompleteFields(key), i, Pair(k, v)),
                    OneOperation(key, MappingNode(
                        InsertAt(CompleteFields(key), i, Pair(k, v)))), 0) :
                i \in 1 .. Len(CompleteFields(key)) + 1 } :
            key \in {"add_movie", "add_genre", "get_movie"},
            k \in {"title", "id", "other"}, v \in WrongShapes }

\* add_movie in compact form, followed by another entry of the document
\* whose value is a mapping with the fields of a movie.
StrayFields ==
    { <<Pair("director", ScalarNode("D1")), Pair("year", ScalarNode("1999")),
        Pair("genres", SequenceNode(<<"a">>))>>,
      <<Pair("title", ScalarNode("T1")), Pair("director", ScalarNode("D1")),
        Pair("year", ScalarNode("1999")),
        Pair("genres", SequenceNode(<<"a">>))>> }

StrayInputs ==
    { Input("stray", key, fields,
            <<MappingNode(<<Pair("add_movie", ScalarNode("T9")),
                            Pair(key, MappingNode(fields))>>)>>, 0) :
        key \in {"bogus", "get_movie"}, fields \in StrayFields }

Inputs == MovieInputs \cup KeyInputs \cup ScalarInputs \cup StreamInputs
              \cup CutInputs \cup MismatchInputs \cup StrayInputs

\* ------------------------------------------- the parser, call by call ----
\* A caller that owns a parser on one input and calls parser_next_op.
InitParser ==
    \E input \in Inputs :
        /\ InitServer("parser")
        /\ s_input = input
        /\ s_parser = parser_create(Events(input))
        /\ s_returned = <<>>
        /\ s_pc = "call"
        /\ s_hard_fail = FALSE
        /\ s_sent = <<>>
        /\ s_db = <<>>

\* One call of parser_next_op: it returns an operation, or it never returns.
ParserNextOp ==
    /\ s_pc = "call"
    /\ Len(s_returned) < MaxCalls
    /\ Cardinality({i \in 1 .. Len(s_returned) :
                       s_returned[i].ty = PARSE_DONE}) < MaxDone
    /\ LET r == parser_next_op(s_parser) IN
         IF r.op.ty = NO_RETURN
           THEN /\ s_pc' = "no_return"
                /\ UNCHANGED <<s_parser, s_returned>>
           ELSE /\ s_parser' = r.parser
                /\ s_returned' = Append(s_returned, r.op)
                /\ s_pc' = s_pc
    /\ UNCHANGED <<s_input, s_hard_fail, s_sent, s_db>>
    /\ UNCHANGED <<queue_vars, sync_vars, wpc, wlocal_vars, session_vars,
                   main_vars, pushed, got, close_vars, data_vars>>

NextParser == ParserNextOp

ParserSpec == InitParser /\ [][NextParser]_vars

\* ------------------------------------------ request.c: handle_request ----
\* What a data-access call hands back: its result and whether it stored an
\* error message.  The layer stores a message exactly when it fails.
DbOutcomes == {[result |-> r, errmsg |-> (r # DB_SUCCESS)] : r \in DbResults}

\* Every result with and without a message, as handle_request can be handed.
AnyOutcomes == [result : DbResults, errmsg : BOOLEAN]

\* The line sent before the data-access call.
acknowledgement(ty) == <<"server: received">>

\* send_ok, send_movie, send_movie_list, send_summary_list.
success_response(ty) ==
    IF ty \in {ADD_MOVIE, ADD_GENRE, REMOVE_MOVIE} THEN <<"server: ok">>
    ELSE IF ty = GET_MOVIE THEN <<"movie">>
    ELSE IF ty = LIST_SUMMARIES THEN <<"summaries">>
    ELSE <<"movies">>

\* handle_result that drops the message instead of sending it.
handle_result_send_dropped(errmsg) == <<>>

\* handle_result: the error line, sent when a message was stored.
handle_result_send(errmsg) ==
    IF errmsg THEN <<"server: message">> ELSE <<>>

\* What one loop turn sends for a data-access operation.
turn_sends(ty, outcome) ==
    acknowledgement(ty)
        \o (IF outcome.result = DB_SUCCESS THEN success_response(ty) ELSE <<>>)
        \o handle_result_send(outcome.errmsg)

\* handle_request entered its loop on a fresh parser.
InitSession ==
    \E input \in Inputs :
        /\ InitServer("session")
        /\ s_input = input
        /\ s_parser = parser_create(Events(input))
        /\ s_returned = <<>>
        /\ s_pc = "loop"
        /\ s_hard_fail = FALSE
        /\ s_sent = <<>>
        /\ s_db = <<>>

\* One turn of the loop: parser_next_op, the dispatch on op.ty, the
\* data-access call with one of `outcomes`, the responses, handle_result.
SessionTurn(outcomes) ==
    /\ s_pc = "loop"
    /\ ~parser_finished(s_parser)
    /\ ~s_hard_fail
    /\ LET r == parser_next_op(s_parser)
           op == r.op
       IN
       IF op.ty = NO_RETURN
         THEN /\ s_pc' = "no_return"
              /\ UNCHANGED <<s_parser, s_returned, s_hard_fail, s_sent, s_db>>
         ELSE /\ s_pc' = s_pc
              /\ s_parser' = r.parser
              /\ s_returned' = Append(s_returned, op)
              /\ IF op.ty = PARSE_DONE
                   THEN /\ s_sent' = Append(s_sent, <<>>)
                        /\ s_hard_fail' = handle_result(DB_SUCCESS)
                        /\ UNCHANGED s_db
                 ELSE IF op.ty = PARSE_ERROR
                   THEN /\ s_sent' = Append(s_sent, <<"server: parsing error">>)
                        /\ s_hard_fail' = handle_result(DB_SUCCESS)
                        /\ UNCHANGED s_db
                 ELSE \E outcome \in outcomes :
                        /\ s_db' = Append(s_db, [turn |-> Len(s_returned) + 1,
                                                 op |-> op,
                                                 result |-> outcome.result,
                                                 errmsg |-> outcome.errmsg])
                        /\ s_sent' = Append(s_sent, turn_sends(op.ty, outcome))
                        /\ s_hard_fail' = handle_result(outcome.result)
    /\ UNCHANGED s_input
    /\ UNCHANGED <<queue_vars, sync_vars, wpc, wlocal_vars, session_vars,
                   main_vars, pushed, got, close_vars, data_vars>>

\* The loop was left: parser_destroy, close(sock_fd), return.
SessionClose ==
    /\ s_pc = "loop"
    /\ parser_finished(s_parser) \/ s_hard_fail
    /\ s_pc' = "closed"
    /\ UNCHANGED <<s_parser, s_input, s_returned, s_hard_fail, s_sent, s_db>>
    /\ UNCHANGED <<queue_vars, sync_vars, wpc, wlocal_vars, session_vars,
                   main_vars, pushed, got, close_vars, data_vars>>

NextSession == SessionTurn(DbOutcomes) \/ SessionClose

SessionSpec == InitSession /\ [][NextSession]_vars

NextHandler == SessionTurn(AnyOutcomes) \/ SessionClose

\* The same loop, with the data-access calls free to return any result
\* with or without a message.
HandlerSpec == InitSession /\ [][NextHandler]_vars

\* ---------------------------------------------- connecting: db_connect ----
\* The statements db_prepare_stmts builds, in its order.
Statements ==
    <<"begin", "commit", "rollback", "insert_movie", "insert_genre",
      "insert_genre_link", "delete_movie", "delete_unused_genres",
      "select_all_titles", "select_all_movies", "select_movie",
      "select_movie_genres">>

NullStmt(name) == [name |-> name, state |-> "null"]

\* Mutant: db_prepare without the shared error flag's early return.
db_prepare_unguarded(c, name, rv_ok) ==
    IF ~rv_ok
      THEN [c EXCEPT !.has_error = TRUE,
                     !.errmsg = c.errmsg_given,
                     !.stmts = Append(@, NullStmt(name)),
                     !.prepares = Append(@, [name |-> name, ok |-> FALSE])]
      ELSE [c EXCEPT !.stmts = Append(@, [name |-> name, state |-> "prepared"]),
                     !.prepares = Append(@, [name |-> name, ok |-> TRUE])]

\* db_prepare: builds one statement with sqlite3_prepare_v3, which succeeds
\* or not (`rv_ok`), unless an earlier statement of the series failed.
db_prepare(c, name, rv_ok) ==
    IF c.has_error
      THEN [c EXCEPT !.stmts = Append(@, NullStmt(name))]
    ELSE IF ~rv_ok
      THEN [c EXCEPT !.has_error = TRUE,
                     !.errmsg = c.errmsg_given,
                     !.stmts = Append(@, NullStmt(name)),
                     !.prepares = Append(@, [name |-> name, ok |-> FALSE])]
      ELSE [c EXCEPT !.stmts = Append(@, [name |-> name, state |-> "prepared"]),
                     !.prepares = Append(@, [name |-> name, ok |-> TRUE])]

\* sqlite3_finalize: safe to call with NULL.
sqlite3_finalize(stmt) ==
    IF stmt.state = "prepared" THEN [stmt EXCEPT !.state = "finalized"]
                               ELSE stmt

\* sqlite3_close inside db_close: the handle is released unless statements
\* of it are still unfinalized (SQLITE_BUSY; the second close fails alike).
db_close(db, stmts) ==
    IF \E i \in 1 .. Len(stmts) : stmts[i].state = "prepared"
      THEN db
      ELSE "closed"

\* The caller passes a place for the error message, or NULL.
ConnectCall ==
    /\ conn.pc = "call"
    /\ \E given \in BOOLEAN :
         conn' = [conn EXCEPT !.pc = "calloc", !.errmsg_given = given]
    /\ UNCHANGED <<queue_vars, sync_vars, wpc, wlocal_vars, session_vars,
                   main_vars, pushed, got, close_vars, parse_vars, store, ring, mbuilder>>

\* calloc of the connection structure.
ConnectAlloc ==
    /\ conn.pc = "calloc"
    /\ \E ok \in BOOLEAN :
         conn' = IF ok
                   THEN [conn EXCEPT !.pc = "open", !.allocated = TRUE]
                   ELSE [conn EXCEPT !.pc = "returned", !.ret = "NULL",
                                     !.errmsg = conn.errmsg_given]
    /\ UNCHANGED <<queue_vars, sync_vars, wpc, wlocal_vars, session_vars,
                   main_vars, pushed, got, close_vars, parse_vars, store, ring, mbuilder>>

\* db_open: the handle is open, or it was closed again and connect returns.
ConnectOpen ==
    /\ conn.pc = "open"
    /\ \E ok \in BOOLEAN :
         conn' = IF ok
                   THEN [conn EXCEPT !.pc = "prepare", !.db = "open"]
                   ELSE [conn EXCEPT !.pc = "returned", !.ret = "NULL",
                                     !.db = db_close("open", <<>>),
                                     !.allocated = FALSE,
                                     !.errmsg = conn.errmsg_given]
    /\ UNCHANGED <<queue_vars, sync_vars, wpc, wlocal_vars, session_vars,
                   main_vars, pushed, got, close_vars, parse_vars, store, ring, mbuilder>>

\* db_prepare_stmts: the next db_prepare of the series.
ConnectPrepare ==
    /\ conn.pc = "prepare"
    /\ Len(conn.stmts) < Len(Statements)
    /\ \E rv_ok \in BOOLEAN :
         conn' = db_prepare(conn, Statements[Len(conn.stmts) + 1], rv_ok)
    /\ UNCHANGED <<queue_vars, sync_vars, wpc, wlocal_vars, session_vars,
                   main_vars, pushed, got, close_vars, parse_vars, store, ring, mbuilder>>

\* db_prepare_stmts after the series: every statement is finalized and false
\* returned, or the statements are stored in the connection.
ConnectPrepared ==
    /\ conn.pc = "prepare"
    /\ Len(conn.stmts) = Len(Statements)
    /\ conn' = IF conn.has_error
                 THEN [conn EXCEPT
                         !.pc = "failed",
                         !.stmts = [i \in 1 .. Len(conn.stmts) |->
                                       sqlite3_finalize(conn.stmts[i])]]
                 ELSE [conn EXCEPT !.pc = "verify"]
    /\ UNCHANGED <<queue_vars, sync_vars, wpc, wlocal_vars, session_vars,
                   main_vars, pushed, got, close_vars, parse_vars, store, ring, mbuilder>>

\* db_connect after a failed db_prepare_stmts: db_close, free, return NULL.
ConnectFailed ==
    /\ conn.pc = "failed"
    /\ conn' = [conn EXCEPT !.pc = "returned", !.ret = "NULL",
                            !.db = db_close(conn.db, conn.stmts),
                            !.allocated = FALSE]
    /\ UNCHANGED <<queue_vars, sync_vars, wpc, wlocal_vars, session_vars,
                   main_vars, pushed, got, close_vars, parse_vars, store, ring, mbuilder>>

\* db_connect returns the connection.
ConnectReturn ==
    /\ conn.pc = "verify"
    /\ conn' = [conn EXCEPT !.pc = "returned", !.ret = "conn"]
    /\ UNCHANGED <<queue_vars, sync_vars, wpc, wlocal_vars, session_vars,
                   main_vars, pushed, got, close_vars, parse_vars, store, ring, mbuilder>>

NextConnect ==
    \/ ConnectCall
    \/ ConnectAlloc
    \/ ConnectOpen
    \/ ConnectPrepare
    \/ ConnectPrepared
    \/ ConnectFailed
    \/ ConnectReturn

ConnectSpec == InitAt("connect") /\ [][NextConnect]_vars

\* ------------------------------------------------- the store: actions ----
\* Whether the engine may still fail a statement for a reason of its own.
FaultChoices == IF store.faults < MaxFaults THEN BOOLEAN ELSE {FALSE}

\* BEGIN DEFERRED TRANSACTION, the first statement of every operation: it
\* takes no lock yet.
sql_begin(c, op, w) ==
    [IdleConn EXCEPT !.pc = "run", !.op = op, !.prog = Program(op),
                     !.tx = TRUE, !.log = <<"BEGIN">>,
                     !.began = Len(store.history),
                     !.overlapped =
                        {store.conns[v].op.name :
                            v \in {v \in Workers \ {w} :
                                      store.conns[v].pc = "run"}}]

\* Worker w calls an operation on its connection.
DbCall(w) ==
    /\ store.conns[w].pc = "idle"
    /\ store.ops < MaxStoreOps
    /\ \E op \in Operations, fault \in FaultChoices :
         store' =
            [store EXCEPT
               !.ops = @ + 1,
               !.faults = IF fault THEN @ + 1 ELSE @,
               !.conns[w] =
                  IF fault
                    THEN Failed([IdleConn EXCEPT !.op = op], SQLITE_IOERR,
                                FALSE)
                    ELSE sql_begin(store.conns[w], op, w)]
    /\ UNCHANGED <<queue_vars, sync_vars, wpc, wlocal_vars, session_vars,
                   main_vars, pushed, got, close_vars, parse_vars, conn, ring, mbuilder>>

\* The operation on w's connection runs its next statement and, after the
\* last one, returns.
DbStep(w) ==
    /\ store.conns[w].pc = "run"
    /\ \E fault \in FaultChoices : store' = RunStmt(store, w, fault)
    /\ UNCHANGED <<queue_vars, sync_vars, wpc, wlocal_vars, session_vars,
                   main_vars, pushed, got, close_vars, parse_vars, conn, ring, mbuilder>>

NextStore == \E w \in Workers : DbCall(w) \/ DbStep(w)

StoreSpec == InitAt("store") /\ [][NextStore]_vars

\* ------------------------------- the queue when its counters wrap ----
\* Mutant: any capacity between 0 and UINT_MAX is accepted.
static_assert_positive(capacity) == 0 < capacity /\ capacity < UINT_MAX

\* The static assertions on WORK_QUEUE_CAPACITY.
static_assert(capacity) ==
    /\ 0 < capacity /\ capacity < UINT_MAX
    /\ UINT_MAX % capacity = capacity - 1

\* The capacities the queue can be built with.
Capacities == {c \in 1 .. UINT_MAX : static_assert(c)}

\* A ticket after an increment of its counter.
Incremented(ticket) == (ticket + 1) % (UINT_FAST64_MAX + 1)

\* idx in a build with WORK_QUEUE_CAPACITY = capacity.
idx_in(capacity, ticket) == ticket % capacity

\* The queue is created in a build with one of the capacities.
RingCreate ==
    /\ ring.capacity = 0
    /\ \E c \in Capacities :
         ring' = [capacity |-> c, head |-> 0, tail |-> 0, live |-> <<>>]
    /\ UNCHANGED <<queue_vars, sync_vars, wpc, wlocal_vars, session_vars,
                   main_vars, pushed, got, close_vars, parse_vars, conn,
                   store, mbuilder>>

\* workq_push with no other thread at work: unless the queue seems full,
\* the item goes to slot idx(tail) and tail is incremented.
RingPush ==
    /\ ring.capacity > 0
    /\ ~(workq_size(ring.head, ring.tail) >= ring.capacity)
    /\ ring' = [ring EXCEPT
                  !.tail = Incremented(@),
                  !.live = Append(@, idx_in(ring.capacity, ring.tail))]
    /\ UNCHANGED <<queue_vars, sync_vars, wpc, wlocal_vars, session_vars,
                   main_vars, pushed, got, close_vars, parse_vars, conn,
                   store, mbuilder>>

\* workq_pop with no other thread at work: unless the queue seems empty,
\* the item of slot idx(head) is taken and head is incremented.
RingPop ==
    /\ ring.capacity > 0
    /\ ~(workq_size(ring.head, ring.tail) <= 0)
    /\ ring' = [ring EXCEPT !.head = Incremented(@), !.live = Tail(@)]
    /\ UNCHANGED <<queue_vars, sync_vars, wpc, wlocal_vars, session_vars,
                   main_vars, pushed, got, close_vars, parse_vars, conn,
                   store, mbuilder>>

NextRing == RingCreate \/ RingPush \/ RingPop

WrapSpec == InitAt("ring") /\ [][NextRing]_vars

\* ------------------------------------- movie/builder.c: the arena ----
\* The builder with its memory: one string buffer that grows by pages and
\* holds every string as its bytes followed by NUL, records that refer to
\* their strings by offset, and a list of records that grows by steps.
NUL == "NUL"

\* size_t is as wide as the counters of the queue.
SIZE_MAX == UINT_FAST64_MAX

INT_MAX == 2147483647

\* A byte of allocated memory that was never written.
Garbage == "?"

\* The strings the callers store.
Strings == {<<>>, <<"a">>, <<"b", "c">>}

NoRef ==
    [movie_id |-> 0, title_slice |-> 0, director_slice |-> 0,
     release_year |-> 0, genres_slice |-> 0, genres_count |-> 0]

\* What the caller expects of the record under construction: the strings
\* it stored, and the calls of string-storing functions since the record
\* was started.
NoWant == [title |-> <<>>, director |-> <<>>, genres |-> <<>>, calls |-> <<>>]

\* alloc_aligned: memory runs out at MaxPages pages; a call may fail before
\* that for as long as faults are left.
alloc_fails(builder, bytes, fail) ==
    \/ bytes > MaxPages * BUFFER_PAGE_SIZE
    \/ fail /\ builder.faults < MaxFaults

Faulted(builder, bytes, fail) ==
    IF fail /\ bytes <= MaxPages * BUFFER_PAGE_SIZE
      THEN [builder EXCEPT !.faults = @ + 1]
      ELSE builder

\* movie_builder_create: the buffers are allocated, with one page for the
\* strings and room for one record; nothing else is written.  `junk` is
\* what the memory of the fields not written happens to hold.
movie_builder_create(junk) ==
    [pc |-> "created",
     current |-> NoRef,
     has_id |-> junk, has_title |-> junk, has_director |-> junk,
     has_release_year |-> junk, has_genres |-> junk,
     str_data |-> [i \in 1 .. BUFFER_PAGE_SIZE |-> Garbage],
     str_capacity |-> BUFFER_PAGE_SIZE,
     str_in_use |-> IF junk THEN 1 ELSE 0,
     str_moves |-> 0,
     movie_list |-> <<>>,
     list_capacity |-> 1,
     list_size |-> IF junk THEN 1 ELSE 0,
     ret |-> "none", out |-> <<>>,
     want |-> NoWant, wants |-> <<>>,
     faults |-> 0, calls |-> 0]

\* movie_builder_reset (with the memory): the buffers are kept and counted
\* as empty.
movie_builder_reset_arena(builder) ==
    [builder EXCEPT !.pc = "ready",
                    !.str_in_use = 0, !.list_size = 0, !.movie_list = <<>>,
                    !.has_id = FALSE, !.has_title = FALSE,
                    !.has_director = FALSE, !.has_release_year = FALSE,
                    !.has_genres = FALSE,
                    !.want = NoWant, !.wants = <<>>]

ceil_div(a, b) == 1 + ((a - 1) \div b)

\* movie_builder_realloc_str_data that copies nothing into the new buffer.
movie_builder_realloc_str_data_uncopied(builder, additional_size, fail) ==
    LET final_size == builder.str_in_use + additional_size
        final_capacity == ceil_div(final_size, BUFFER_PAGE_SIZE) * BUFFER_PAGE_SIZE
    IN IF alloc_fails(builder, final_capacity, fail)
         THEN [ok |-> FALSE, builder |-> Faulted(builder, final_capacity, fail)]
         ELSE [ok |-> TRUE,
               builder |-> [builder EXCEPT
                  !.str_data = [i \in 1 .. final_capacity |-> Garbage],
                  !.str_capacity = final_capacity,
                  !.str_moves = @ + 1]]

\* movie_builder_realloc_str_data: a buffer of whole pages that holds
\* `additional_size` more bytes, with the bytes in use copied over.
movie_builder_realloc_str_data(builder, additional_size, fail) ==
    LET final_size == builder.str_in_use + additional_size
        final_capacity == ceil_div(final_size, BUFFER_PAGE_SIZE) * BUFFER_PAGE_SIZE
    IN IF alloc_fails(builder, final_capacity, fail)
         THEN [ok |-> FALSE, builder |-> Faulted(builder, final_capacity, fail)]
         ELSE [ok |-> TRUE,
               builder |-> [builder EXCEPT
                  !.str_data = [i \in 1 .. final_capacity |->
                                  IF i <= builder.str_in_use
                                    THEN builder.str_data[i] ELSE Garbage],
                  !.str_capacity = final_capacity,
                  !.str_moves = @ + 1]]

\* movie_builder_create_slice that gives up the bytes in use when the
\* buffer cannot grow.
movie_builder_create_slice_dropping(builder, size, fail) ==
    LET grown == IF size > builder.str_capacity - builder.str_in_use
                   THEN movie_builder_realloc_str_data(builder, size, fail)
                   ELSE [ok |-> TRUE, builder |-> builder]
    IN IF ~grown.ok
         THEN [ok |-> FALSE, slice |-> 0,
               builder |-> [grown.builder EXCEPT !.str_in_use = 0]]
         ELSE [ok |-> TRUE, slice |-> builder.str_in_use,
               builder |-> [grown.builder EXCEPT !.str_in_use = @ + size]]

\* movie_builder_create_slice: `size` bytes at the end of the bytes in use,
\* in a larger buffer when they do not fit.
movie_builder_create_slice(builder, size, fail) ==
    LET grown == IF size > builder.str_capacity - builder.str_in_use
                   THEN movie_builder_realloc_str_data(builder, size, fail)
                   ELSE [ok |-> TRUE, builder |-> builder]
    IN IF ~grown.ok THEN [ok |-> FALSE, slice |-> 0, builder |-> grown.builder]
       ELSE [ok |-> TRUE, slice |-> builder.str_in_use,
             builder |-> [grown.builder EXCEPT !.str_in_use = @ + size]]

\* movie_builder_add_string: the bytes of `str` and a NUL, copied to a new
\* slice.
movie_builder_add_string(builder, str, fail) ==
    LET s == movie_builder_create_slice(builder, Len(str) + 1, fail) IN
    IF ~s.ok THEN s
    ELSE [s EXCEPT !.builder.str_data =
            [i \in 1 .. Len(@) |->
               IF i <= s.slice \/ i > s.slice + Len(str) + 1 THEN @[i]
               ELSE IF i = s.slice + Len(str) + 1 THEN NUL
               ELSE str[i - s.slice]]]

\* movie_builder_get_const_str: the string that starts at the slice, as C
\* reads it: the bytes up to the next NUL.
RECURSIVE movie_builder_get_const_str(_, _)
movie_builder_get_const_str(builder, slice) ==
    IF slice >= Len(builder.str_data) THEN <<Garbage>>
    ELSE IF builder.str_data[slice + 1] = NUL THEN <<>>
    ELSE <<builder.str_data[slice + 1]>>
             \o movie_builder_get_const_str(builder, slice + 1)

\* The loop of movie_builder_take_genres: `count` strings, each right after
\* the NUL of the one before.
RECURSIVE genres_from(_, _, _)
genres_from(builder, slice, count) ==
    IF count = 0 THEN <<>>
    ELSE LET genre == movie_builder_get_const_str(builder, slice) IN
         <<genre>> \o genres_from(builder, slice + Len(genre) + 1, count - 1)

\* movie_builder_take_genres: the genres of a record.
movie_builder_take_genres(builder, ref) ==
    genres_from(builder, ref.genres_slice, ref.genres_count)

\* movie_builder_take_movie: the record with its strings dereferenced.
movie_builder_take_movie(builder, ref) ==
    [id |-> ref.movie_id,
     title |-> movie_builder_get_const_str(builder, ref.title_slice),
     director |-> movie_builder_get_const_str(builder, ref.director_slice),
     release_year |-> ref.release_year,
     genres |-> movie_builder_take_genres(builder, ref)]

\* The assumption at the top of movie_builder_realloc_movie_list.
assume_step(builder) == builder.list_capacity % MOVIE_LIST_CAPACITY_STEP = 0

\* movie_builder_realloc_movie_list: room for MOVIE_LIST_CAPACITY_STEP more
\* records.  Where the assumption does not hold, a build that checks it
\* stops there and the others go on.
movie_builder_realloc_movie_list(builder, fail, checked) ==
    LET final_capacity == builder.list_capacity + MOVIE_LIST_CAPACITY_STEP IN
    IF ~assume_step(builder) /\ checked
      THEN [ok |-> FALSE, builder |-> [builder EXCEPT !.pc = "aborted"]]
    ELSE IF alloc_fails(builder, final_capacity, fail)
      THEN [ok |-> FALSE, builder |-> Faulted(builder, final_capacity, fail)]
    ELSE [ok |-> TRUE, builder |-> [builder EXCEPT !.list_capacity = final_capacity]]

\* movie_build_add_to_list: the record goes to the end of the list, which
\* grows first when it is full.
movie_build_add_to_list(builder, ref, fail, checked) ==
    LET grown == IF builder.list_capacity <= builder.list_size
                   THEN movie_builder_realloc_movie_list(builder, fail, checked)
                   ELSE [ok |-> TRUE, builder |-> builder]
    IN IF ~grown.ok THEN grown
       ELSE [ok |-> TRUE,
             builder |-> [grown.builder EXCEPT
                            !.movie_list = Append(@, ref),
                            !.list_size = @ + 1]]

\* One call on the builder is counted and its return value kept (a call
\* that stopped the process returned nothing); what an earlier call gave
\* out is set aside.
Called(builder, ret) ==
    [builder EXCEPT !.calls = @ + 1,
                    !.ret = IF builder.pc = "aborted" THEN "none" ELSE ret,
                    !.out = <<>>]

CanCall == mbuilder.pc = "ready" /\ mbuilder.calls < MaxBuilderCalls

BuilderUnchanged ==
    UNCHANGED <<queue_vars, sync_vars, wpc, wlocal_vars, session_vars,
                main_vars, pushed, got, close_vars, parse_vars, conn,
                store, ring>>

BuilderCreate ==
    /\ mbuilder = BuilderEntry
    /\ \E junk \in BOOLEAN : mbuilder' = movie_builder_create(junk)
    /\ BuilderUnchanged

BuilderReset ==
    /\ mbuilder.pc \in {"created", "ready"}
    /\ mbuilder.calls < MaxBuilderCalls
    /\ mbuilder' = Called(movie_builder_reset_arena(mbuilder), "none")
    /\ BuilderUnchanged

BuilderSetId ==
    /\ CanCall
    /\ ~mbuilder.has_id
    /\ mbuilder' = Called([mbuilder EXCEPT !.current.movie_id = 7,
                                           !.has_id = TRUE], "none")
    /\ BuilderUnchanged

BuilderSetTitle ==
    /\ CanCall
    /\ ~mbuilder.has_title
    /\ \E str \in Strings, fail \in BOOLEAN :
         LET s == movie_builder_add_string(mbuilder, str, fail) IN
         mbuilder' =
           IF ~s.ok THEN Called(s.builder, "false")
           ELSE Called([s.builder EXCEPT
                          !.current.title_slice = s.slice,
                          !.has_title = TRUE,
                          !.want.title = str,
                          !.want.calls = Append(@, "title")], "true")
    /\ BuilderUnchanged

BuilderSetDirector ==
    /\ CanCall
    /\ ~mbuilder.has_director
    /\ \E str \in Strings, fail \in BOOLEAN :
         LET s == movie_builder_add_string(mbuilder, str, fail) IN
         mbuilder' =
           IF ~s.ok THEN Called(s.builder, "false")
           ELSE Called([s.builder EXCEPT
                          !.current.director_slice = s.slice,
                          !.has_director = TRUE,
                          !.want.director = str,
                          !.want.calls = Append(@, "director")], "true")
    /\ BuilderUnchanged

BuilderSetReleaseYear ==
    /\ CanCall
    /\ ~mbuilder.has_release_year
    /\ mbuilder' = Called([mbuilder EXCEPT !.current.release_year = 1999,
                                           !.has_release_year = TRUE], "none")
    /\ BuilderUnchanged

BuilderStartGenres ==
    /\ CanCall
    /\ ~mbuilder.has_genres
    /\ mbuilder' = Called([mbuilder EXCEPT
                             !.current.genres_slice = mbuilder.str_in_use,
                             !.current.genres_count = 0,
                             !.has_genres = TRUE,
                             !.want.genres = <<>>,
                             !.want.calls = Append(@, "genres")], "none")
    /\ BuilderUnchanged

BuilderAddGenre ==
    /\ CanCall
    /\ mbuilder.has_genres
    /\ mbuilder.current.genres_count < MaxGenres
    /\ \E str \in Strings, fail \in BOOLEAN :
         LET s == movie_builder_add_string(mbuilder, str, fail) IN
         mbuilder' =
           IF ~s.ok THEN Called(s.builder, "false")
           ELSE Called([s.builder EXCEPT
                          !.current.genres_count = @ + 1,
                          !.want.genres = Append(@, str),
                          !.want.calls = Append(@, "genres")], "true")
    /\ BuilderUnchanged

IsDone(builder) ==
    /\ builder.has_id
    /\ builder.has_title
    /\ builder.has_director
    /\ builder.has_release_year
    /\ builder.has_genres

\* movie_builder_take_current_movie: the current record dereferenced,
\* unless the array for its genres cannot be allocated (malloc may give
\* NULL for an array of no genres).
BuilderTakeCurrentMovie ==
    /\ CanCall
    /\ IsDone(mbuilder)
    /\ \E fail \in BOOLEAN :
         /\ fail => (mbuilder.faults < MaxFaults \/ mbuilder.current.genres_count = 0)
         /\ mbuilder' =
              IF fail
                THEN Called([mbuilder EXCEPT !.faults =
                               IF mbuilder.current.genres_count = 0 THEN @
                               ELSE @ + 1], "false")
                ELSE [Called(mbuilder, "true") EXCEPT !.out =
                        <<movie_builder_take_movie(mbuilder, mbuilder.current)>>]
    /\ BuilderUnchanged

\* movie_builder_add_current_movie_to_list
BuilderAddCurrentMovieToList ==
    /\ CanCall
    /\ IsDone(mbuilder)
    /\ \E fail \in BOOLEAN, checked \in BOOLEAN :
         LET a == movie_build_add_to_list(mbuilder, mbuilder.current, fail, checked) IN
         mbuilder' =
           IF ~a.ok THEN Called(a.builder, "false")
           ELSE Called([a.builder EXCEPT
                          !.has_id = FALSE, !.has_title = FALSE,
                          !.has_director = FALSE, !.has_release_year = FALSE,
                          !.has_genres = FALSE,
                          !.wants = Append(@, mbuilder.want),
                          !.want = NoWant], "true")
    /\ BuilderUnchanged

\* movie_builder_add_current_summary_to_list
BuilderAddCurrentSummaryToList ==
    /\ CanCall
    /\ mbuilder.has_id /\ mbuilder.has_title
    /\ ~mbuilder.has_director /\ ~mbuilder.has_release_year /\ ~mbuilder.has_genres
    /\ \E fail \in BOOLEAN, checked \in BOOLEAN :
         LET summary == [movie_id |-> mbuilder.current.movie_id,
                         title_slice |-> mbuilder.current.title_slice,
                         director_slice |-> SIZE_MAX,
                         release_year |-> INT_MAX,
                         genres_slice |-> SIZE_MAX,
                         genres_count |-> SIZE_MAX]
             a == movie_build_add_to_list(mbuilder, summary, fail, checked)
         IN mbuilder' =
              IF ~a.ok THEN Called(a.builder, "false")
              ELSE Called([a.builder EXCEPT
                             !.has_id = FALSE, !.has_title = FALSE,
                             !.wants = Append(@, mbuilder.want),
                             !.want = NoWant], "true")
    /\ BuilderUnchanged

NextBuilder ==
    \/ BuilderCreate
    \/ BuilderReset
    \/ BuilderSetId
    \/ BuilderSetTitle
    \/ BuilderSetDirector
    \/ BuilderSetReleaseYear
    \/ BuilderStartGenres
    \/ BuilderAddGenre
    \/ BuilderTakeCurrentMovie
    \/ BuilderAddCurrentMovieToList
    \/ BuilderAddCurrentSummaryToList

BuilderSpec == InitAt("builder") /\ [][NextBuilder]_vars

\* ============================================================ claims ====
Range(seq) == {seq[i] : i \in 1 .. Len(seq)}

\* Items published and not yet claimed, by ticket.
InQueue == [i \in 1 .. (tail - head) |-> buf[idx(head + i - 1)]]

\* Items returned by successful pops, in claim order.
GotItems == [i \in 1 .. Len(got) |-> got[i].item]

\* Position of an item in the push order (0: never pushed).
PushIndex(item) ==
    IF \E k \in 1 .. Len(pushed) : pushed[k] = item
      THEN CHOOSE k \in 1 .. Len(pushed) : pushed[k] = item
      ELSE 0

\* C1: the items returned by successful pops, followed by the items still
\* queued, are exactly the items pushed, ticket by ticket: no item is lost,
\* duplicated or returned with a value other than the one pushed for its
\* ticket.  Once every pushed item was popped the popped items are the
\* pushed items.
C1_PoppedArePushed ==
    /\ Len(got) = head
    /\ Len(pushed) = tail
    /\ head <= tail
    /\ GotItems \o InQueue = pushed
    /\ \A i, j \in 1 .. Len(pushed) : i # j => pushed[i] # pushed[j]

\* All MaxClients > WORK_QUEUE_CAPACITY items went through the ring and
\* were popped, by both consumers.
C1_Witness ==
    /\ MaxClients > WORK_QUEUE_CAPACITY
    /\ Len(got) = MaxClients
    /\ GotItems = pushed
    /\ {got[i].worker : i \in 1 .. Len(got)} = Workers

\* C4: the number of unclaimed items stays within 0 .. WORK_QUEUE_CAPACITY,
\* head and tail never decrease, and a push that observed a full ring
\* returns false having written no slot and left tail alone.
C4_SizeInv == 0 <= tail - head /\ tail - head <= WORK_QUEUE_CAPACITY

C4_FullPushInv ==
    (mpc = "after_push" /\ seems_full(m_head, m_tail)) =>
        /\ ~m_ok
        /\ workq_size(m_head, m_tail) = WORK_QUEUE_CAPACITY
        /\ tail = m_tail
        /\ m_fd \notin Range(pushed)
        /\ \A i \in DOMAIN buf : buf[i] # m_fd

C4_Monotone == head' >= head /\ tail' >= tail

C4_QueueBounds == [](C4_SizeInv /\ C4_FullPushInv) /\ [][C4_Monotone]_vars

\* A push was rejected on a full ring after slots had been reused.
C4_Witness ==
    /\ mpc = "after_push"
    /\ ~m_ok
    /\ seems_full(m_head, m_tail)
    /\ head > 0

\* C5: the items one consumer obtained through its successive successful
\* pops are strictly increasing in push index.
C5_PerConsumerIncreasing ==
    \A i, j \in 1 .. Len(got) :
        (i < j /\ got[i].worker = got[j].worker) =>
            PushIndex(got[i].item) < PushIndex(got[j].item)

\* One consumer popped two items and the other popped one in between.
C5_Witness ==
    \E i, j, k \in 1 .. Len(got) :
        /\ i < k /\ k < j
        /\ got[i].worker = got[j].worker
        /\ got[k].worker # got[i].worker

\* C7 as stated: handle_request reports a hard failure exactly when a
\* database call of the session returned DB_HARD_ERROR; after any other
\* outcome the worker goes on to pop the next item.
C7_HardFailureIffHardError ==
    \A w \in Workers :
        /\ w_ret[w] = "fail" <=> w_cause[w] = "hard"
        /\ w_ret[w] = "fail" => wpc[w] = "disconnect"
        /\ w_ret[w] = "ok" => wpc[w] = "pop_head"

\* C7 amended: handle_request returns false exactly when a database call of
\* the session returned DB_HARD_ERROR or the parser could not be created;
\* the worker leaves its loop exactly then, and otherwise pops again.
C7_FailIffHardOrNoParser ==
    \A w \in Workers :
        /\ w_ret[w] = "fail" <=> w_cause[w] \in {"hard", "nocreate"}
        /\ w_ret[w] = "ok" <=> w_cause[w] = "done"
        /\ w_ret[w] = "fail" => wpc[w] = "disconnect"
        /\ w_ret[w] = "ok" => wpc[w] = "pop_head"

\* One worker just left its loop on a hard error while the other one just
\* finished a session normally and goes on.
C7_Witness ==
    \E w, v \in Workers :
        /\ w_ret[w] = "fail" /\ w_cause[w] = "hard" /\ wpc[w] = "disconnect"
        /\ w_ret[v] = "ok" /\ w_cause[v] = "done" /\ wpc[v] = "pop_head"

\* Times a descriptor was closed, by anyone.
Closes(fd) == (IF fd \in closed_main THEN 1 ELSE 0) + closed_wrk[fd]

\* C6: every accepted descriptor is closed exactly once: by handle_request
\* when it was delivered to a worker, or by the accept loop when the
\* enqueue was rejected; none is closed twice or by both, and no worker
\* handles a descriptor the accept loop closed.
C6_ClosedExactlyOnce ==
    /\ \A fd \in Fds : Closes(fd) <= 1
    /\ \A w \in Workers : w_fd[w] \notin closed_main
    /\ \A fd \in Range(GotItems) :
           (\A w \in Workers : w_fd[w] # fd) => closed_wrk[fd] = 1

\* C10: workq_push returns true iff the item was inserted: after a false
\* return tail is where the push found it and the item is neither queued
\* nor with a worker.
C10_FalseMeansNotInserted ==
    mpc = "after_push" =>
        /\ m_ok <=> m_fd \in Range(pushed)
        /\ ~m_ok => /\ tail = m_tail
                    /\ m_fd \notin Range(InQueue)
                    /\ \A w \in Workers : w_fd[w] # m_fd

\* Inside workq_wait_not_empty.
WaitPcs == {"wait_lock", "wait_head", "wait_tail", "waiting", "wait_unlock"}

\* The threads blocked in pthread_cond_wait.
BlockedWaiters == {w \in Workers : wpc[w] = "waiting"}

\* A push just returned true, the queue is not empty and exactly the
\* threads of S are blocked in workq_wait_not_empty.
PushLeftItemFor(S) ==
    /\ mpc = "after_push"
    /\ m_ok
    /\ tail > head
    /\ BlockedWaiters = S

\* C2 as stated: whenever a push completes and leaves the queue non-empty
\* while threads are blocked in workq_wait_not_empty, one of those threads
\* eventually returns from it.
C2_BlockedWaiterReturns ==
    \A S \in (SUBSET Workers) \ {{}} :
        PushLeftItemFor(S) ~> (\E w \in S : wpc[w] \notin WaitPcs)

\* C2 amended: ... one of those threads eventually returns from it, or the
\* queue is empty again because another consumer popped what was pushed.
C2_BlockedWaiterReturnsOrQueueDrained ==
    \A S \in (SUBSET Workers) \ {{}} :
        PushLeftItemFor(S) ~> ((\E w \in S : wpc[w] \notin WaitPcs) \/ head = tail)

\* A push completed with an item queued while a thread that it signalled is
\* still inside pthread_cond_wait.
C2_Witness ==
    /\ mpc = "after_push"
    /\ m_ok
    /\ tail > head
    /\ \E w \in Workers : wpc[w] = "waiting" /\ w \notin waiters


\* Every worker is blocked in workq_wait_not_empty on an empty queue.
AllIdle ==
    /\ head = tail
    /\ \A w \in Workers : wpc[w] = "waiting" /\ w \in waiters

\* C3: from a state where all workers are blocked in workq_wait_not_empty
\* on an empty queue, a stop of the pool eventually has every worker thread
\* returned from worker_thread and joined, and workers_stop completed.
C3_StopCompletes ==
    (AllIdle /\ mpc = "stop_kill")
        ~> (mpc = "stopped" /\ \A w \in Workers : wpc[w] = "joined")

\* C8: when workers_add_work returns true at least one worker thread is
\* alive to pop the enqueued item, and when it returns false no worker is
\* alive and the descriptor was not enqueued.
C8_TrueMeansLiveWorker ==
    mpc = "add_work_ret" =>
        /\ m_ok => \E w \in Workers : Alive(w)
        /\ ~m_ok => /\ \A w \in Workers : ~Alive(w)
                    /\ m_fd \notin Range(pushed)

\* C9: one workers_add_work call pushes once and retries the push at most
\* MaxEnqueueRetries times.
C9_RetriesBounded == m_tries <= MaxEnqueueRetries + 1

\* ------------------------------------------------ the operation parser ----
\* The operation a complete entry stands for: what parser_next_op returns
\* for a stream that holds this entry alone.
OperationOf(entry) ==
    parser_next_op(
        parser_create(Stream(OneOperation(entry.key, entry.value)))).op

\* C11: for a stream holding a structurally invalid operation followed by a
\* valid one, the first call of parser_next_op returns ParseError and the
\* second returns the valid operation with its own fields: what is left of
\* the invalid operation is neither returned as an operation nor merged
\* into the next one.
C11_ErrorThenValid ==
    (/\ s_input.kind = "stream"
     /\ s_input.pairs[1] \in InvalidOps
     /\ Len(s_returned) >= 2)
    => /\ s_returned[1].ty = PARSE_ERROR
       /\ s_returned[2] = OperationOf(s_input.pairs[2])

\* C12: after a failed read of the socket, parser_next_op returns ParseError
\* with the library's problem text, the parser is finished from then on,
\* and every later call returns ParseDone.
C12_ReadFailureIsFinal ==
    (s_input.kind = "cut" /\ s_parser.yaml.error)
    => /\ s_pc = "call"
       /\ parser_finished(s_parser)
       /\ \E i \in 1 .. Len(s_returned) :
            /\ s_returned[i] = parse_fail(s_parser)
            /\ \A j \in i + 1 .. Len(s_returned) :
                 s_returned[j].ty = PARSE_DONE

\* The last call returned ParseDone.
ReturnedDone ==
    /\ s_pc = "call"
    /\ s_returned # <<>>
    /\ s_returned[Len(s_returned)].ty = PARSE_DONE

\* C13: once parser_next_op has returned ParseDone for the end of the
\* stream, the parser is finished and stays finished, and every later call
\* returns ParseDone and leaves the parser where it was: no further event
\* is consumed.
C13_DoneIsFinal ==
    [][ReturnedDone
         => /\ parser_finished(s_parser)
            /\ s_parser' = s_parser
            /\ s_returned' = Append(s_returned, [ty |-> PARSE_DONE])]_vars

\* Operations were returned, then ParseDone, then ParseDone again.
C13_Witness ==
    /\ s_input.cut = 0
    /\ Len(s_returned) >= 3
    /\ s_returned[1].ty \notin {PARSE_DONE, PARSE_ERROR}
    /\ s_returned[Len(s_returned) - 1].ty = PARSE_DONE
    /\ s_returned[Len(s_returned)].ty = PARSE_DONE

\* ------------------------------------------------- the request handler ----
\* C14: when the read of the socket times out or fails during a session,
\* handle_request leaves its loop, destroys the parser and closes the
\* socket: a session that is not closed is still turning its loop, with
\* every call it makes returning, and no worker is held in it forever.
C14_StalledSessionCloses ==
    (s_input.cut # 0 /\ s_pc # "closed") => s_pc = "loop"

\* Results after which the session goes on.
SoftErrors == {DB_USER_ERROR, DB_RUNTIME_ERROR}

\* C15: a data-access result of UserError or RuntimeError is sent to the
\* client as a `server: <message>` line and does not set hard_fail, so the
\* loop reads the next operation; the loop is left only when the parser
\* is finished (end of stream) or after a HardError.
C15_SoftErrorsContinue ==
    /\ \A k \in 1 .. Len(s_db) :
         s_db[k].result \in SoftErrors
           => /\ "server: message" \in Range(s_sent[s_db[k].turn])
              /\ (s_db[k].turn = Len(s_returned) => ~s_hard_fail)
              /\ (s_db[k].turn = Len(s_returned) /\ s_pc = "closed"
                    => parser_finished(s_parser))
    /\ s_pc = "closed"
         => \/ parser_finished(s_parser)
            \/ /\ s_db # <<>>
               /\ s_db[Len(s_db)].result = DB_HARD_ERROR
               /\ s_db[Len(s_db)].turn = Len(s_returned)

\* A session that went through a UserError and a RuntimeError, read the
\* operations after them and was closed at the end of the stream.
C15_Witness ==
    /\ s_pc = "closed"
    /\ Len(s_db) = 2
    /\ s_db[1].result = DB_USER_ERROR
    /\ s_db[2].result = DB_RUNTIME_ERROR
    /\ s_returned[Len(s_returned)].ty = PARSE_DONE

\* What turn i sent after the acknowledgement line.
Outcomes(i) == SelectSeq(s_sent[i], LAMBDA line : line # "server: received")

\* C16: for every operation the parser returned other than ParseDone, the
\* handler sent exactly one outcome after the acknowledgement: a success
\* response or a `server: <message>` error line, whatever the data-access
\* call returned and whether or not it stored a message.
C16_ExactlyOneOutcome ==
    \A i \in 1 .. Len(s_returned) :
        s_returned[i].ty # PARSE_DONE => Len(Outcomes(i)) = 1

\* The mapping written gives a value the parser accepts for the field: any
\* scalar for title and director, an integer for the release year and the
\* id, a list for the genres.
Gives(pairs, field) ==
    \E i \in 1 .. Len(pairs) :
        /\ parse_key(pairs[i].key) = field
        /\ field \in {YEAR_KEY, ID_KEY} => parse_i64(pairs[i].value[1].value).ok

AllFieldsGiven(pairs) ==
    \A field \in {TITLE_KEY, DIRECTOR_KEY, YEAR_KEY, GENRE_KEY} :
        Gives(pairs, field)

\* Turn i of the session called the data-access layer.
CalledDb(i) == \E k \in 1 .. Len(s_db) : s_db[k].turn = i

FirstGiven(pairs, field) ==
    pairs[CHOOSE i \in 1 .. Len(pairs) :
            /\ Gives(SubSeq(pairs, i, i), field)
            /\ ~Gives(SubSeq(pairs, 1, i - 1), field)]

\* The scalar written as the value of a pair, and the scalars of a list.
ScalarOf(pair) == pair.value[1].value

ListOf(pair) ==
    [i \in 1 .. Len(pair.value) - 2 |-> pair.value[i + 1].value]

\* A field is given more than once.
Repeats(pairs, field) ==
    \E i, j \in 1 .. Len(pairs) :
        i # j /\ parse_key(pairs[i].key) = field
              /\ parse_key(pairs[j].key) = field

\* C18: when a field key occurs more than once inside one operation
\* mapping, the operation returned carries the value of the first accepted
\* occurrence: a later occurrence does not overwrite the field and does
\* not extend the genre list.
C18_FirstValueKept ==
    /\ (s_input.kind = "movie" /\ s_returned # <<>>
          /\ s_returned[1].ty = ADD_MOVIE)
         => LET movie == s_returned[1].movie
                pairs == s_input.pairs
            IN /\ movie.title = ScalarOf(FirstGiven(pairs, TITLE_KEY))
               /\ movie.director = ScalarOf(FirstGiven(pairs, DIRECTOR_KEY))
               /\ movie.release_year
                    = parse_i64(ScalarOf(FirstGiven(pairs, YEAR_KEY))).out
               /\ movie.genres = ListOf(FirstGiven(pairs, GENRE_KEY))
    /\ (s_input.kind = "key" /\ s_returned # <<>>
          /\ s_returned[1].ty \in {ADD_GENRE, REMOVE_MOVIE, GET_MOVIE,
                                   SEARCH_BY_GENRE})
         => LET key == s_returned[1].key
                pairs == s_input.pairs
            IN /\ s_returned[1].ty # SEARCH_BY_GENRE
                    => key.movie_id
                         = parse_i64(ScalarOf(FirstGiven(pairs, ID_KEY))).out
               /\ s_returned[1].ty \in {ADD_GENRE, SEARCH_BY_GENRE}
                    => key.genre = ScalarOf(FirstGiven(pairs, GENRE_KEY))

\* An add_movie with two genre lists was returned, with the first list.
C18_Witness ==
    /\ s_input.kind = "movie"
    /\ Repeats(s_input.pairs, GENRE_KEY)
    /\ s_input.pairs[Len(s_input.pairs)].key = "genres"
    /\ s_returned # <<>>
    /\ s_returned[1].ty = ADD_MOVIE
    /\ s_returned[1].movie.genres = <<"b", "c">>

\* The pairs of a mapping, rearranged.
Rearranged(pairs) ==
    {[i \in 1 .. Len(pairs) |-> pairs[f[i]]] :
        f \in Permutations(1 .. Len(pairs))}

\* What the first call returns for one operation written with these pairs.
Emitted(key, pairs) ==
    parser_next_op(
        parser_create(Stream(OneOperation(key, MappingNode(pairs))))).op

\* The same operation: the same type and fields; two errors count as the
\* same outcome wherever they were found.
SameOperation(a, b) ==
    IF a.ty = PARSE_ERROR THEN b.ty = PARSE_ERROR ELSE a = b

\* The inputs C19 is about: add_movie, and add_genre in mapping form.
Permutable ==
    \/ s_input.kind = "movie"
    \/ s_input.kind = "key" /\ s_input.key = "add_genre"

\* No field is given twice, under one key or under two keys that name the
\* same field.
NoFieldTwice(pairs) ==
    \A field \in {ID_KEY, TITLE_KEY, GENRE_KEY, DIRECTOR_KEY, YEAR_KEY} :
        ~Repeats(pairs, field)

\* C19 as stated: for add_movie and for add_genre in mapping form, every
\* permutation of the key/value pairs of the mapping yields the operation
\* the parser returned.
C19_AnyOrderSameOperation ==
    (Permutable /\ Len(s_returned) = 1)
    => \A pairs \in Rearranged(s_input.pairs) :
           SameOperation(s_returned[1], Emitted(s_input.key, pairs))

\* C19, amended: the same, for mappings in which no field is given twice.
C19_AnyOrderSameOperationOnce ==
    (Permutable /\ Len(s_returned) = 1 /\ NoFieldTwice(s_input.pairs))
    => \A pairs \in Rearranged(s_input.pairs) :
           SameOperation(s_returned[1], Emitted(s_input.key, pairs))

\* A complete add_movie written with the genres first and the title last.
C19_Witness ==
    /\ s_input.kind = "movie"
    /\ NoFieldTwice(s_input.pairs)
    /\ Len(s_input.pairs) = 4
    /\ parse_key(s_input.pairs[1].key) = GENRE_KEY
    /\ parse_key(s_input.pairs[4].key) = TITLE_KEY
    /\ Len(s_returned) = 1
    /\ s_returned[1].ty = ADD_MOVIE

\* The pairs with every key `name` written as `genre`.
NameAsGenre(pairs) ==
    [i \in 1 .. Len(pairs) |->
        IF pairs[i].key = "name" THEN Pair("genre", pairs[i].value)
                                 ELSE pairs[i]]

\* C20: in the mapping form of add_genre and search_by_genre the key `name`
\* is an alias of `genre`: the mapping yields the operation that the same
\* mapping written with `genre` yields.
C20_NameIsGenre ==
    (/\ s_input.kind = "key"
     /\ s_input.key \in {"add_genre", "search_by_genre"}
     /\ Len(s_returned) = 1)
    => SameOperation(Emitted(s_input.key, NameAsGenre(s_input.pairs)),
                     s_returned[1])

\* C28: when preparing a cached statement fails during db_connect, connect
\* returns NULL with the error message set (where the caller gave a place
\* for it), sqlite3_prepare_v3 is not called again after the first failure,
\* every statement prepared before it is finalized, the handle is closed
\* and the connection structure freed.
C28_FailedPrepareCleansUp ==
    /\ \A i \in 1 .. Len(conn.prepares) :
         ~conn.prepares[i].ok => i = Len(conn.prepares)
    /\ (conn.pc = "returned" /\ conn.has_error) =>
         /\ conn.ret = "NULL"
         /\ conn.errmsg_given => conn.errmsg
         /\ \A i \in 1 .. Len(conn.stmts) : conn.stmts[i].state # "prepared"
         /\ conn.db = "closed"
         /\ ~conn.allocated

\* db_connect returned after its fourth statement failed to prepare.
C28_Witness ==
    /\ conn.pc = "returned"
    /\ conn.has_error
    /\ conn.errmsg_given
    /\ Len(conn.prepares) = 4
    /\ conn.stmts[3].state = "finalized"

\* C29: an operation with a field whose value is a nested mapping or a
\* sequence where a scalar is expected is answered with ParseError, also
\* when all its required fields are set, and the events of the nested value
\* are consumed, so that the next call finds the end of the stream.
C29_MismatchIsParseError ==
    s_input.kind = "mismatch" =>
        /\ Len(s_returned) >= 1 => s_returned[1].ty = PARSE_ERROR
        /\ Len(s_returned) >= 2 => s_returned[2].ty = PARSE_DONE

\* The nested value is consumed to its end: what follows the operation with
\* the mismatch is the end of the stream.
C29_NestingRestored ==
    (s_input.kind = "mismatch" /\ Len(s_returned) >= 2) =>
        s_returned[2].ty = PARSE_DONE

\* The threads that are still running worker_thread.
LiveWorkers == {w \in Workers : wpc[w] \notin {"exited", "joined"}}

\* Inside workq_pop_or_wait.
PopOrWaitPcs == {"pop_head", "pop_tail", "pop_read", "pop_cas"} \cup WaitPcs

\* The push that published the newest item has yet to signal for it.
SignalToCome == mpc \in {"sig_lock", "sig_signal"} /\ m_ok

\* An item is queued, every running worker is blocked in pthread_cond_wait
\* and nothing is on its way to wake one of them.
Stranded ==
    /\ tail > head
    /\ LiveWorkers # {}
    /\ \A w \in LiveWorkers : wpc[w] = "waiting" /\ w \in waiters
    /\ ~SignalToCome

Endings(log) ==
    {i \in 1 .. Len(log) : log[i] \in {"COMMIT", "ROLLBACK", "OR ROLLBACK"}}

HasReturned(w) ==
    store.conns[w].pc = "idle" /\ store.conns[w].op.name # "none"

Returns(w) == store.conns[w].pc = "run" /\ store'.conns[w].pc = "idle"

\* The call on w's connection returns in the step that makes it.
ReturnsAtOnce(w) ==
    /\ store.conns[w].pc = "idle"
    /\ store'.conns[w].pc = "idle"
    /\ store'.conns[w] # store.conns[w]

\* The tables db hold movie m under id, with every genre of m and its link.
Holds(db, id, m) ==
    /\ [id |-> id, title |-> m.title, director |-> m.director,
        release_year |-> m.release_year] \in db.movie
    /\ \A i \in 1 .. Len(m.genres) :
         \E g \in db.genre :
            /\ g.name = m.genres[i]
            /\ [movie_id |-> id, genre_id |-> g.id] \in db.movie_genre

\* C22: a register_movie that returns an error leaves the file as it was,
\* whatever statement failed; one that returns success has added the movie
\* row under the id it reports, the genres and the links, and has removed
\* nothing; and the file never changes but in the step in which an operation
\* returns success.
C22_RegisterAtomic ==
    [][\A w \in Workers :
        LET c == store.conns[w]
            d == store'.conns[w]
        IN  /\ (store'.file # store.file /\ d # c) =>
                 Returns(w) /\ d.result = DB_SUCCESS
            /\ ((Returns(w) \/ ReturnsAtOnce(w))
                    /\ d.op.name = "register_movie") =>
                 IF d.result = DB_SUCCESS
                   THEN /\ d.rowid > 0
                        /\ Holds(store'.file, d.rowid, d.op.movie)
                        /\ store.file.movie \subseteq store'.file.movie
                        /\ store.file.genre \subseteq store'.file.genre
                        /\ store.file.movie_genre
                              \subseteq store'.file.movie_genre
                        /\ \A m \in store.file.movie : m.id # d.rowid
                   ELSE store'.file = store.file]_vars

C22_Witness ==
    \E w, v \in Workers :
        /\ HasReturned(w) /\ HasReturned(v)
        /\ store.conns[w].op.name = "register_movie"
        /\ store.conns[w].result = DB_USER_ERROR
        /\ store.conns[w].rowid = 2
        /\ store.conns[v].op.name = "register_movie"
        /\ store.conns[v].result = DB_SUCCESS
        /\ Cardinality(store.file.movie) = 1
        /\ {g.name : g \in store.file.genre} = {"a"}

\* Positions of the history at which an id was assigned.
Assignments ==
    {i \in 1 .. Len(store.history) : store.history[i].ev = "assigned"}

\* The id assigned at position i was deleted later.
DeletedAfter(i) ==
    \E j \in i + 1 .. Len(store.history) :
        /\ store.history[j].ev = "deleted"
        /\ store.history[j].id = store.history[i].id

HasLink(db, movie, name) ==
    \E g \in db.genre :
        g.name = name /\ [movie_id |-> movie, genre_id |-> g.id] \in db.movie_genre

\* The operation that returns was not failed by the engine for a reason of
\* its own (I/O, a lock held by another connection).
NoEngineFailure(c) == c.rc \notin {SQLITE_BUSY, SQLITE_IOERR}

\* C24: add_genre(id, g) on a movie of the store that has no link to g
\* returns success and the link is there; repeated, with the link there, it
\* returns UserError, not HardError, and leaves the links and the genre
\* table (the whole file) as they were.
C24_SecondAddGenreUserError ==
    [][\A w \in Workers :
        LET d == store'.conns[w] IN
        (Returns(w) /\ d.op.name = "add_genre" /\ NoEngineFailure(d)
              /\ \E m \in store.file.movie : m.id = d.op.id) =>
            IF HasLink(store.file, d.op.id, d.op.genre)
              THEN /\ d.result = DB_USER_ERROR
                   /\ store'.file.movie_genre = store.file.movie_genre
                   /\ store'.file.genre = store.file.genre
                   /\ store'.file = store.file
              ELSE /\ d.result = DB_SUCCESS
                   /\ HasLink(store'.file, d.op.id, d.op.genre)]_vars

C24_Witness ==
    \E w \in Workers :
        /\ HasReturned(w)
        /\ store.conns[w].op = Operation("add_genre", NoMovie, 1, "b")
        /\ store.conns[w].result = DB_USER_ERROR
        /\ store.conns[w].rc = SQLITE_CONSTRAINT_UNIQUE
        /\ store.ops = 3
        /\ \E m \in store.file.movie : m.id = 1 /\ m.title = "T1"
        /\ HasLink(store.file, 1, "b")

\* Genres no movie is linked to.
Orphans(db) ==
    {g \in db.genre : ~\E l \in db.movie_genre : l.genre_id = g.id}

RegisteredUntouched(c) ==
    {i \in Assignments :
        /\ i <= c.began
        /\ store.history[i].id = c.op.id
        /\ \A j \in i + 1 .. Len(store.history) :
              store.history[j].id # c.op.id}

\* C26: a get_movie on the id a register_movie assigned, begun after the
\* registration and not failed by the engine, returns success and one movie
\* with that id, the title, director and release year registered and the
\* genres registered, as a set, whatever was done to other movies in
\* between.
C26_RoundTrip ==
    [][\A w \in Workers :
        LET d == store'.conns[w] IN
        (Returns(w) /\ d.op.name = "get_movie" /\ NoEngineFailure(d)) =>
            \A i \in RegisteredUntouched(d) :
                LET m == store.history[i].movie IN
                /\ d.result = DB_SUCCESS
                /\ d.found = {[id |-> d.op.id, title |-> m.title,
                               director |-> m.director,
                               release_year |-> m.release_year,
                               genres |-> Range(m.genres)]}]_vars

C26_Witness ==
    \E w \in Workers :
        /\ HasReturned(w)
        /\ store.conns[w].op.name = "get_movie"
        /\ store.conns[w].result = DB_SUCCESS
        /\ store.conns[w].found =
              {[id |-> 1, title |-> "T1", director |-> "D1",
                release_year |-> 1999, genres |-> {"a"}]}
        /\ \E m \in store.file.movie : m.id = 2 /\ m.title = "T2"

\* No movie has the id the operation on connection c asks for, in the file
\* now or at any time since the operation began.
UnknownId(c) ==
    /\ c.op.id \in MovieIds
    /\ \A m \in store.file.movie : m.id # c.op.id
    /\ \A j \in c.began + 1 .. Len(store.history) :
          store.history[j].id # c.op.id

\* C27: add_genre, delete_movie and get_movie on an id no movie has, when
\* the engine does not fail them, return UserError with the message `no
\* movie with id = N ...` of the operation, leave the file as it was (no
\* genre row is created) and are no reason for the worker to end the
\* session.
C27_UnknownIdUserError ==
    [][\A w \in Workers :
        LET d == store'.conns[w] IN
        (Returns(w) /\ d.op.name \in {"add_genre", "delete_movie", "get_movie"}
              /\ NoEngineFailure(d) /\ UnknownId(d)) =>
            /\ d.result = DB_USER_ERROR
            /\ ~handle_result(d.result)
            /\ d.errmsg =
                 <<"no movie with id = ", d.op.id,
                   IF d.op.name = "delete_movie"
                     THEN " to be deleted from the database"
                     ELSE " found in the database">>
            /\ store'.file = store.file]_vars

C27_Witness ==
    \E w \in Workers :
        /\ HasReturned(w)
        /\ store.conns[w].op = Operation("add_genre", NoMovie, 2, "b")
        /\ store.conns[w].result = DB_USER_ERROR
        /\ store.conns[w].rc = SQLITE_CONSTRAINT_FOREIGNKEY
        /\ store.conns[w].log = <<"BEGIN", "ROLLBACK">>
        /\ {m.id : m \in store.file.movie} = {1}
        /\ {g.name : g \in store.file.genre} = {"a"}

\* C31: the head is_empty has loaded and the tail it is about to load are
\* never more than the capacity apart, so the assumption made on the two
\* loads holds.
C31_SnapshotWithinCapacity ==
    \A w \in Workers :
        wpc[w] = "wait_tail" =>
            workq_size(w_head[w], tail) <= WORK_QUEUE_CAPACITY

\* The ticket i places after the head.
TicketAfterHead(i) == (ring.head + i) % (UINT_FAST64_MAX + 1)

\* C32: whatever the counters are, wrapped or not, the slot of the next
\* ticket is the next slot of the ring, workq_size is the number of items
\* pushed and not popped, these items lie in pairwise different slots, each
\* in the slot idx gives its ticket, and the queue seems empty exactly when
\* it holds nothing and full exactly when it holds capacity items.
C32_WrapKeepsSlotsAndSize ==
    ring.capacity > 0 =>
        /\ \A t \in {ring.head, ring.tail} :
             idx_in(ring.capacity, Incremented(t))
                = (idx_in(ring.capacity, t) + 1) % ring.capacity
        /\ workq_size(ring.head, ring.tail) = Len(ring.live)
        /\ \A i, j \in 1 .. Len(ring.live) :
             i # j => ring.live[i] # ring.live[j]
        /\ \A i \in 1 .. Len(ring.live) :
             ring.live[i] = idx_in(ring.capacity, TicketAfterHead(i - 1))
        /\ (workq_size(ring.head, ring.tail) <= 0) <=> (ring.live = <<>>)
        /\ (workq_size(ring.head, ring.tail) >= ring.capacity)
              <=> (Len(ring.live) = ring.capacity)

\* A full queue of four whose tail has wrapped and whose head has not.
C32_Witness ==
    /\ ring.capacity = 4
    /\ ring.tail < ring.head
    /\ Len(ring.live) = 4

\* Events the parser under study has consumed.
Consumed == SubSeq(s_parser.yaml.input, 1, s_parser.yaml.pos - 1)

\* Mappings the consumed events opened and did not close.
Depth(events) ==
    Cardinality({i \in 1 .. Len(events) :
                    events[i].type = YAML_MAPPING_START_EVENT})
      - Cardinality({i \in 1 .. Len(events) :
                       events[i].type = YAML_MAPPING_END_EVENT})

\* C33: after every return of parser_next_op, in_mapping is true exactly
\* when the events consumed leave the top-level mapping, and nothing inside
\* it, open.
C33_InMappingIsDepthOne ==
    (Len(s_returned) >= 1 /\ ~s_parser.yaml.error) =>
        (s_parser.in_mapping <=> Depth(Consumed) = 1)

\* The value mappings of the add_movie entries of a stream, each as the
\* positions of the events after its start and before its end (before the
\* end of the events, when a read failure cut the mapping).
MappingEnds(events, k) ==
    { e \in (k + 2) .. Len(events) : Depth(SubSeq(events, k + 1, e)) = 0 }
        \cup {Len(events) + 1}

OwnMappings(events) ==
    { (k + 2) .. (Min(MappingEnds(events, k)) - 1) :
        k \in { k \in 1 .. Len(events) - 1 :
                  /\ events[k].type = YAML_SCALAR_EVENT
                  /\ parse_ty(events[k].value) = ADD_MOVIE
                  /\ Depth(SubSeq(events, 1, k - 1)) = 1
                  /\ events[k + 1].type = YAML_MAPPING_START_EVENT } }

\* `value` is written in the span as the value of a key of kind `key`.
SuppliedIn(events, span, key, value) ==
    \E j \in span :
        /\ j + 1 \in span
        /\ events[j].type = YAML_SCALAR_EVENT
        /\ parse_key(events[j].value) = key
        /\ events[j + 1] = Scalar(value)

\* The genres are written in the span as a sequence under a genre key.
GenresSuppliedIn(events, span, genres) ==
    \E j \in span :
        /\ events[j].type = YAML_SCALAR_EVENT
        /\ parse_key(events[j].value) = GENRE_KEY
        /\ j + Len(genres) + 2 \in span
        /\ SubSeq(events, j + 1, j + Len(genres) + 2) = SequenceNode(genres)

\* C34: an ADD_MOVIE operation carries a title, a director, a release year
\* and genres that were each written as a key/value pair inside the value
\* mapping of one add_movie entry; a scalar met before that mapping starts,
\* or a field under another key of the document, is never part of it.
C34_MovieFromOwnMapping ==
    \A i \in 1 .. Len(s_returned) :
        s_returned[i].ty = ADD_MOVIE =>
            \E span \in OwnMappings(Events(s_input)) :
                /\ SuppliedIn(Events(s_input), span, TITLE_KEY,
                              s_returned[i].movie.title)
                /\ SuppliedIn(Events(s_input), span, DIRECTOR_KEY,
                              s_returned[i].movie.director)
                /\ \E j \in span :
                     /\ SuppliedIn(Events(s_input), span, YEAR_KEY,
                                   Events(s_input)[j].value)
                     /\ parse_i64(Events(s_input)[j].value).ok
                     /\ parse_i64(Events(s_input)[j].value).out
                          = s_returned[i].movie.release_year
                /\ GenresSuppliedIn(Events(s_input), span,
                                    s_returned[i].movie.genres)

\* Events of the stream the parser under study has not consumed.
EventsLeft(parser) == Len(parser.yaml.input) + 1 - parser.yaml.pos

\* C35: on a finite stream that ends with STREAM-END, every call of
\* parser_next_op returns, and it has consumed at least one event or
\* returns PARSE_DONE; events are left for as long as the parser is not
\* finished, so the loop of calls ends.
C35_CallsConsumeUntilDone ==
    [][ (s_input.cut = 0 /\ s_pc = "call") =>
          /\ s_pc' = "call"
          /\ Len(s_returned') = Len(s_returned) + 1
          /\ \/ EventsLeft(s_parser') < EventsLeft(s_parser)
             \/ s_returned'[Len(s_returned')].ty = PARSE_DONE
          /\ EventsLeft(s_parser') >= 0
          /\ ~parser_finished(s_parser') => EventsLeft(s_parser') > 0 ]_vars

\* A stream of two documents read to its end in four calls or more.
C35_Witness ==
    /\ s_input.cut = 0
    /\ s_pc = "call"
    /\ Len(s_input.docs) = 2
    /\ Len(s_returned) >= 4
    /\ parser_finished(s_parser)
    /\ EventsLeft(s_parser) = 0

\* C38: whatever events the parser is fed, it calls a setter of the builder
\* only while the field's has-flag is false, add_genre only after
\* start_genres, and take_current_movie / take_current_summary only with
\* every flag they require set: no assumption of the builder is broken.
C38_BuilderAssumptionsHold == s_parser.builder.assumed

\* Two operations read with the same builder, the first a complete movie.
C38_Witness ==
    /\ Len(s_returned) >= 2
    /\ s_returned[1].ty = ADD_MOVIE
    /\ s_returned[1].movie.genres = <<"a">>
    /\ s_returned[2].ty \in {GET_MOVIE, ADD_GENRE, LIST_SUMMARIES, ADD_MOVIE}
    /\ s_parser.builder.assumed

\* The calls that stored the genres of a record came one after the other.
Contiguous(calls) ==
    \A i \in 1 .. Len(calls), k \in 1 .. Len(calls) :
        (i < k /\ calls[i] = "genres" /\ calls[k] = "genres") =>
            \A j \in i .. k : calls[j] = "genres"

\* A record of the list is a summary: it has a title only.
IsSummary(ref) == ref.genres_count = SIZE_MAX

\* C36: with the title, the director and one contiguous run of genres
\* stored in any order after a reset, take_current_movie gives back that
\* title, that director and those genres in the order they were added,
\* also when the string buffer moved between the calls; and every record
\* of the list still dereferences to the strings it was built from.
C36_RoundTrip ==
    mbuilder.pc = "ready" =>
        /\ (mbuilder.out # <<>> /\ Contiguous(mbuilder.want.calls)) =>
              /\ mbuilder.out[1].title = mbuilder.want.title
              /\ mbuilder.out[1].director = mbuilder.want.director
              /\ mbuilder.out[1].genres = mbuilder.want.genres
        /\ \A i \in 1 .. mbuilder.list_size :
              IF IsSummary(mbuilder.movie_list[i])
                THEN movie_builder_get_const_str(
                         mbuilder, mbuilder.movie_list[i].title_slice)
                       = mbuilder.wants[i].title
                ELSE Contiguous(mbuilder.wants[i].calls) =>
                       LET movie == movie_builder_take_movie(
                                        mbuilder, mbuilder.movie_list[i])
                       IN /\ movie.title = mbuilder.wants[i].title
                          /\ movie.director = mbuilder.wants[i].director
                          /\ movie.genres = mbuilder.wants[i].genres

\* A movie taken with two genres after the buffer moved, the title stored
\* after the genres.
C36_Witness ==
    /\ mbuilder.pc = "ready"
    /\ mbuilder.out # <<>>
    /\ mbuilder.str_moves >= 1
    /\ mbuilder.out[1].genres = <<<<"b", "c">>, <<"a">>>>
    /\ mbuilder.out[1].title = <<"a">>
    /\ mbuilder.want.calls[Len(mbuilder.want.calls)] = "title"

\* What a caller can see of the builder: the has-flags, the bytes in use
\* and what they hold, the current record and the list.
Observable(builder) ==
    [has_id |-> builder.has_id, has_title |-> builder.has_title,
     has_director |-> builder.has_director,
     has_release_year |-> builder.has_release_year,
     has_genres |-> builder.has_genres,
     str_in_use |-> builder.str_in_use,
     strings |-> SubSeq(builder.str_data, 1, builder.str_in_use),
     current |-> builder.current,
     list_size |-> builder.list_size,
     movie_list |-> builder.movie_list]

\* C37: a call that returns false because the string buffer or the list
\* could not grow leaves the has-flags, str_in_use, genres_count, list_size
\* and the strings and records stored before as they were, and a reset
\* after it gives an empty builder that takes calls again.
C37_FailureChangesNothing ==
    [][ /\ (/\ mbuilder.pc = "ready"
            /\ mbuilder'.calls = mbuilder.calls + 1
            /\ mbuilder'.ret = "false") =>
              /\ mbuilder'.pc = "ready"
              /\ Observable(mbuilder') = Observable(mbuilder)
        /\ (/\ mbuilder.pc = "ready"
            /\ mbuilder.ret = "false"
            /\ mbuilder' = Called(movie_builder_reset_arena(mbuilder), "none")) =>
              /\ mbuilder'.pc = "ready"
              /\ mbuilder'.str_in_use = 0
              /\ mbuilder'.list_size = 0
              /\ mbuilder'.str_capacity >= BUFFER_PAGE_SIZE
              /\ mbuilder'.list_capacity >= 1
              /\ ~IsDone(mbuilder') ]_vars

\* add_genre failed to grow the buffer that holds a title and a genre, and
\* the list holds a record.
C37_Witness ==
    /\ mbuilder.pc = "ready"
    /\ mbuilder.ret = "false"
    /\ mbuilder.faults = 1
    /\ mbuilder.has_title
    /\ mbuilder.has_genres
    /\ mbuilder.current.genres_count = 1
    /\ mbuilder.str_in_use = BUFFER_PAGE_SIZE

\* C39: whenever the list is full, so that the next record makes it grow,
\* its capacity is a multiple of MOVIE_LIST_CAPACITY_STEP, as
\* movie_builder_realloc_movie_list assumes.
C39_GrowthAtStepMultiple ==
    (mbuilder.pc = "ready" /\ mbuilder.list_size = mbuilder.list_capacity) =>
        assume_step(mbuilder)

============================================================================
